---- MODULE Spec2Model ----
(***************************************************************************)
(* State-machine model of the ESP32 RFID door-lock firmware, version 2.0   *)
(* (src/emlockmultithreadv1/emlockmultithreadv1.ino, lines 1-1366).        *)
(*                                                                         *)
(* Two FreeRTOS tasks share the NVS registry (under nvsMutex) and three    *)
(* bounded queues:                                                         *)
(*   rfidTask      (core 1): command queue, exit sensor, card scan,        *)
(*                           relay/buzzer timing                           *)
(*   firebaseTask  (core 0): command inbox polling, log and pending upload *)
(* A String is modelled as the sequence of its characters.                 *)
(***************************************************************************)
EXTENDS Integers, Sequences, FiniteSets, TLC

(***************************************************************************)
(* Characters and strings                                                  *)
(***************************************************************************)
UpperHex == {"0", "1", "2", "3", "4", "5", "6", "7", "8", "9",
             "A", "B", "C", "D", "E", "F"}

LowerHex == {"a", "b", "c", "d", "e", "f"}

\* isxdigit(c)
isxdigit(c) == c \in UpperHex \cup LowerHex

\* toupper(c) on the characters the model uses
toUpperChar(c) ==
  CASE c = "a" -> "A" [] c = "b" -> "B" [] c = "c" -> "C"
    [] c = "d" -> "D" [] c = "e" -> "E" [] c = "f" -> "F"
    [] c = "g" -> "G" [] c = "l" -> "L" [] c = "x" -> "X"
    [] OTHER -> c

\* a toUpperCase that leaves the string as it is
keepCase(s) == s

\* String::toUpperCase()
toUpperCase(s) == [i \in 1..Len(s) |-> toUpperChar(s[i])]

\* isspace(c)
isspace(c) == c \in {" ", "\t", "\n", "\r"}

MIN_UID_LENGTH == 8
MAX_UID_LENGTH == 20
MAX_NAME_LENGTH == 45

\* isValidUID without its test of the parity of the length
isValidUIDNoParity(uid) ==
  LET len == Len(uid)
  IN  IF len < MIN_UID_LENGTH \/ len > MAX_UID_LENGTH THEN FALSE
      ELSE \A i \in 1..len : isxdigit(uid[i])

\* Validation::isValidUID, with the order of its three tests
isValidUID(uid) ==
  LET len == Len(uid)
  IN  IF len < MIN_UID_LENGTH \/ len > MAX_UID_LENGTH THEN FALSE
      ELSE IF len % 2 # 0 THEN FALSE
      ELSE \A i \in 1..len : isxdigit(uid[i])

\* String::trim(): drop leading and trailing isspace characters
RECURSIVE trimLeft(_)
trimLeft(s) ==
  IF Len(s) > 0 /\ isspace(s[1]) THEN trimLeft(Tail(s)) ELSE s

RECURSIVE trimRight(_)
trimRight(s) ==
  IF Len(s) > 0 /\ isspace(s[Len(s)])
  THEN trimRight(SubSeq(s, 1, Len(s) - 1))
  ELSE s

trim(s) == trimRight(trimLeft(s))

Unknown == <<"U", "n", "k", "n", "o", "w", "n">>

\* Validation::sanitizeName: trim, then cut to MAX_NAME_LENGTH, then default
sanitizeName(name) ==
  LET trimmed == trim(name)
      cut == IF Len(trimmed) > MAX_NAME_LENGTH
             THEN SubSeq(trimmed, 1, MAX_NAME_LENGTH)
             ELSE trimmed
  IN  IF Len(cut) = 0 THEN Unknown ELSE cut

Lists == {"whitelist", "blacklist", "pending"}

\* isValidList that lets every list name pass
acceptAnyList(list) == TRUE

\* Validation::isValidList
isValidList(list) ==
  list = "whitelist" \/ list = "blacklist" \/ list = "pending"

\* isValidDuration without its lower limit
isValidDurationUpTo(duration) == duration <= 300

\* Validation::isValidDuration
isValidDuration(duration) == duration > 0 /\ duration <= 300

(***************************************************************************)
(* Program constants                                                       *)
(***************************************************************************)
COMMAND_CHECK_INTERVAL == 2000
EXIT_DEBOUNCE_MS == 500
UNLOCK_COOLDOWN_MS == 3000
RELAY_DEFAULT_DURATION == 3000
MAX_BATCH == 5
UID_BUF == 24
NAME_BUF == 50

\* Times are counted in units of 4 ms: every interval of the program is a
\* multiple of 4 ms, and the 2^32 ms range of an unsigned long is 2^30 units.
MsPerUnit == 2 * 2

Units(ms) == ms \div MsPerUnit

\* 2^32 ms, the range of millis() and of every unsigned long, in units
WrapUnits == 1073741824

\* a - b on unsigned long
Sub32(a, b) == (a - b) % WrapUnits

\* duration * 1000, the milliseconds of an unlock command
Mul1000(d) == d * 1000

\* String::toCharArray(buf, bufsize): at most bufsize - 1 characters
toCharArray(s, bufsize) ==
  IF Len(s) > bufsize - 1 THEN SubSeq(s, 1, bufsize - 1) ELSE s

(***************************************************************************)
(* Bounds of the model                                                     *)
(***************************************************************************)
\* capacities of the FreeRTOS queues, scaled down (setup creates 20, 10, 5)
LogQueueCap == 2
PendingQueueCap == 1
CommandQueueCap == 1
\* the clock stops advancing MaxHalfSeconds * 500 ms after boot
MaxHalfSeconds == 12
\* number of command objects the remote side writes into the inbox
MaxSubmit == 2
\* number of reboots
MaxReboots == 1
\* number of physical inputs: cards presented and changes of the exit pin
MaxInputs == 3
\* number of cards presented in the environment that keeps the pending queue
\* supplied while it is drained
DrainInputs == 6

\* millis() when the two tasks start.  setup() has delayed 1000 + 100 ms and
\* initWiFi has waited in steps of 500 ms: once when the network is there,
\* thirty times (its timeout) when it is not.
BootMillis(connected) ==
  IF connected THEN 1000 + 100 + 500 ELSE 1000 + 100 + 30 * 500

\* millis() when setup() is done with its sequence: after the first delay
\* when the mutex could not be created, when the tasks start otherwise
setupMillis(created, connected) ==
  IF created THEN BootMillis(connected) ELSE 1000

\* a setup() that goes on to create the tasks without the mutex
setupPcGoOn(created, pc) == pc

\* where setup() leaves a task: in its loop, or never created because setup()
\* halted in while (1) { delay(1000); }
setupPc(created, pc) == IF created THEN pc ELSE "halt"

(***************************************************************************)
(* Inputs                                                                  *)
(***************************************************************************)
UID_A == <<"A", "A", "B", "B", "C", "C", "D", "D">>
UID_a == <<"a", "a", "b", "b", "c", "c", "d", "d">>
UID_B == <<"1", "2", "3", "4", "A", "B", "C", "D">>
UID_b == <<"1", "2", "3", "4", "a", "b", "c", "d">>
UID_C == <<"0", "0", "0", "0", "0", "0", "0", "1">>
UID_c == UID_C
UID_ODD == <<"A", "B", "C">>
UID_NOHEX == <<"G", "G", "H", "H", "I", "I", "J", "J">>
EXIT_SENSOR == <<"E", "X", "I", "T", "_", "S", "E", "N", "S", "O", "R">>
ExitButton == <<"E", "x", "i", "t", " ", "B", "u", "t", "t", "o", "n">>
Alice == <<"A", "l", "i", "c", "e">>
Bob == <<"B", "o", "b">>

\* a command object: `has` is the set of JSON fields it holds; `list` is the
\* field "list" (or "from" of a move), `id` the submission marker
Cmd(id, has, list, to, uid, name, duration) ==
  [id |-> id, has |-> has, list |-> list, to |-> to, uid |-> uid,
   name |-> name, duration |-> duration]

\* no command object being handled
NoCur == [kind |-> "none", id |-> 0, list |-> "", to |-> "", uid |-> <<>>,
          name |-> <<>>, duration |-> 0]

Kinds == {"unlock", "add", "delete", "move", "rename"}

\* the two tasks setup() creates: rfidTask and firebaseTask
Tasks == {"rfid", "fb"}

VARIABLES
  now,                 \* millis(), in units
  nvs,                 \* NVS namespaces whitelist/blacklist/pending: key -> name
  logQueue, pendingQueue, commandQueue,
  logQueueDrops, pendingQueueDrops, commandQueueDrops,
  relayActive, relayStartTime, relayDuration, lastUnlock,
  buzzerActive, buzzerStartTime, buzzerDuration,
  lastExitSensorState, exitSensorTriggered, lastExitTriggerTime,
  rfPc,                \* position of rfidTask in its loop
  scanUid,             \* uid argument of the running handleRFIDScan
  wifi,                \* WiFi.status() == WL_CONNECTED
  firebaseReady,       \* CloudService::firebaseReady
  lastCommandCheck,
  fbPc,                \* position of firebaseTask in its loop
  cur,                 \* the command object the running handler has parsed
  processed,           \* processLogQueue's batch counter
  drained,             \* entries processPendingQueue has received in this call
                       \* (history)
  inbox,               \* /commands/{unlock,add,delete,move,rename}
  fb,                  \* mirror /{whitelist,blacklist,pending}/{uid}: name
  commandErrors,       \* /commandErrors/{epoch}
  fbLogs,              \* /logs/{epoch_n}
  submitted,           \* number of command objects written so far
  applied,             \* submission marker -> times its command was executed
  reboots,
  unlockCount,         \* accepted relay activations since boot (history)
  env,                 \* the environment of the run: its inputs and faults
  exitPin,             \* level of the exit sensor pin
  inputs,              \* physical inputs so far (history)
  bootAt,              \* millis() at the last boot (bounds the clock)
  wallMs,              \* wall-clock time (NTP) in units, not reset by a reboot
  deviceStatus,        \* /status
  lastStatusUpdate,
  nvsMutex,            \* "null" (never created), "free", or the task holding it
  sm,                  \* task -> the StorageManager call it is in
  logFile              \* the LittleFS log files: the lines appended so far

relayVars == <<relayActive, relayStartTime, relayDuration, lastUnlock,
              unlockCount>>
buzzerVars == <<buzzerActive, buzzerStartTime, buzzerDuration>>
exitVars == <<lastExitSensorState, exitSensorTriggered, lastExitTriggerTime>>
logVars == <<logQueue, logQueueDrops>>
pendVars == <<pendingQueue, pendingQueueDrops>>
cmdQVars == <<commandQueue, commandQueueDrops>>
rfVars == <<rfPc, scanUid>>
netVars == <<wifi, firebaseReady, lastCommandCheck, lastStatusUpdate, fbPc,
            cur, processed, drained>>
remoteVars == <<inbox, fb, commandErrors, fbLogs, deviceStatus, submitted>>
\* what no step of the two tasks changes when StorageManager calls are taken
\* as single steps
fixedVars == <<nvsMutex, sm, logFile>>
histVars == <<applied, reboots, bootAt, env, exitPin, inputs, fixedVars>>

vars == <<now, wallMs, nvs, relayVars, buzzerVars, exitVars, logVars, pendVars,
          cmdQVars, rfVars, netVars, remoteVars, histVars>>

(***************************************************************************)
(* StorageManager.  Every operation takes nvsMutex with a 1000 ms timeout  *)
(* and opens the namespace; `ok` is the outcome of both.                   *)
(***************************************************************************)
Empty == [k \in {} |-> Unknown]

\* the outcomes of one StorageManager call, TRUE when it took the mutex and
\* opened the namespace: every call returns at once while nvsMutex is NULL
Storage == IF nvsMutex = "null" THEN {FALSE} ELSE env.storage

\* Preferences::isKey
isKey(list, uid) == uid \in DOMAIN nvs[list]

\* isWhitelisted that answers "member" when the mutex cannot be taken
isWhitelistedOpen(uid, ok) == IF ~ok THEN TRUE ELSE isKey("whitelist", uid)

\* StorageManager::isWhitelisted
isWhitelisted(uid, ok) == IF ~ok THEN FALSE ELSE isKey("whitelist", uid)

\* StorageManager::isBlacklisted
isBlacklisted(uid, ok) == IF ~ok THEN FALSE ELSE isKey("blacklist", uid)

\* StorageManager::isPending
isPending(uid, ok) == IF ~ok THEN FALSE ELSE isKey("pending", uid)

\* StorageManager::getName; a namespace that does not exist cannot be opened
getName(uid, listType, ok) ==
  IF ~ok \/ ~isValidList(listType) THEN Unknown
  ELSE IF isKey(listType, uid) THEN nvs[listType][uid] ELSE Unknown

\* Preferences::putString on one namespace
putString(store, list, uid, name) ==
  LET old == store[list]
  IN  [store EXCEPT ![list] =
         [k \in DOMAIN old \cup {uid} |-> IF k = uid THEN name ELSE old[k]]]

\* a remove that clears the whole namespace
removeAllKeys(store, list, uid) == [store EXCEPT ![list] = Empty]

\* Preferences::remove on one namespace
removeKey(store, list, uid) ==
  LET old == store[list]
  IN  [store EXCEPT ![list] = [k \in DOMAIN old \ {uid} |-> old[k]]]

\* StorageManager::addToList (addToWhitelist/addToBlacklist/addToPending):
\* the registry after the call
addToList(list, uid, name, ok) ==
  IF ok /\ isValidList(list) THEN putString(nvs, list, uid, name) ELSE nvs

\* StorageManager::addToList: its return value, putString(...) > 0
addToListResult(list, uid, name, ok) ==
  ok /\ isValidList(list) /\ Len(name) > 0

\* StorageManager::removeFromList: the registry after the call
removeFromList(list, uid, ok) ==
  IF ok /\ isValidList(list) THEN removeKey(nvs, list, uid) ELSE nvs

(***************************************************************************)
(* Queues: xQueueSend(q, &item, 0) never waits                             *)
(***************************************************************************)
LogEntry(uid, name, status, type) ==
  [uid |-> toCharArray(uid, UID_BUF), name |-> toCharArray(name, NAME_BUF),
   status |-> status, type |-> type]

\* a send that puts the entry into the queue whether or not there is room
logSendNoLimit(entry) ==
  /\ logQueue' = Append(logQueue, entry)
  /\ UNCHANGED logQueueDrops

\* xQueueSend(logQueue, &entry, 0), logQueueDrops++ when it is full
logSend(entry) ==
  IF Len(logQueue) < LogQueueCap
  THEN /\ logQueue' = Append(logQueue, entry)
       /\ UNCHANGED logQueueDrops
  ELSE /\ logQueueDrops' = logQueueDrops + 1
       /\ UNCHANGED logQueue

\* xQueueSend(pendingQueue, &entry, 0), pendingQueueDrops++ when it is full
pendingSend(uid) ==
  IF Len(pendingQueue) < PendingQueueCap
  THEN /\ pendingQueue' = Append(pendingQueue, toCharArray(uid, UID_BUF))
       /\ UNCHANGED pendingQueueDrops
  ELSE /\ pendingQueueDrops' = pendingQueueDrops + 1
       /\ UNCHANGED pendingQueue

\* xQueueSend(commandQueue, &cmd, 0), commandQueueDrops++ when it is full
commandSend(cmd) ==
  IF Len(commandQueue) < CommandQueueCap
  THEN /\ commandQueue' = Append(commandQueue, cmd)
       /\ UNCHANGED commandQueueDrops
  ELSE /\ commandQueueDrops' = commandQueueDrops + 1
       /\ UNCHANGED commandQueue

\* saveLogToFile: one line appended to the log file of the day.  The program
\* defines it and calls it from nowhere, so no action uses it.
saveLogToFile(uid, name, status, type) ==
  logFile' = Append(logFile, [uid |-> uid, name |-> name, status |-> status,
                              type |-> type])

(***************************************************************************)
(* AccessController (rfidTask, core 1)                                     *)
(***************************************************************************)
\* the cooldown test of activateRelay
cooldownActive == Sub32(now, lastUnlock) < Units(UNLOCK_COOLDOWN_MS)

\* AccessController::activateRelay
activateRelay(duration) ==
  IF cooldownActive
  THEN UNCHANGED relayVars
  ELSE /\ relayActive' = TRUE
       /\ relayStartTime' = now
       /\ relayDuration' = Units(duration)
       /\ lastUnlock' = now
       /\ unlockCount' = unlockCount + 1

\* AccessController::activateBuzzer
activateBuzzer(duration) ==
  /\ buzzerActive' = TRUE
  /\ buzzerStartTime' = now
  /\ buzzerDuration' = Units(duration)

\* rfidTask: xQueueReceive(commandQueue) and AccessController::handleCommand
RfidCommand ==
  /\ rfPc = "cmd"
  /\ Len(commandQueue) > 0
  /\ rfPc' = "exit"
  /\ commandQueue' = Tail(commandQueue)
  /\ IF Head(commandQueue).type = "UNLOCK"
     THEN /\ activateRelay(Head(commandQueue).duration)
          /\ activateBuzzer(100)
     ELSE UNCHANGED <<relayVars, buzzerVars>>
  /\ UNCHANGED <<now, wallMs, nvs, exitVars, logVars, pendVars, commandQueueDrops,
                 scanUid, netVars, remoteVars, histVars>>

\* handleExitSensor that triggers on the level of the pin, not on its edge
handleExitSensorLevel(currentState) ==
  /\ rfPc = "exit" \/ (rfPc = "cmd" /\ Len(commandQueue) = 0)
  /\ rfPc' = "card"
  /\ IF currentState # lastExitSensorState
        /\ Sub32(now, lastExitTriggerTime) < Units(EXIT_DEBOUNCE_MS)
     THEN \* bounce: return before anything is written
          UNCHANGED <<exitVars, relayVars, buzzerVars, logVars>>
     ELSE LET trigger == currentState
              latched == IF trigger THEN TRUE ELSE exitSensorTriggered
              trigTime == IF trigger THEN now ELSE lastExitTriggerTime
          IN  /\ IF trigger
                 THEN /\ activateRelay(RELAY_DEFAULT_DURATION)
                      /\ activateBuzzer(100)
                      /\ logSend(LogEntry(EXIT_SENSOR, ExitButton,
                                          "granted", "exit"))
                 ELSE UNCHANGED <<relayVars, buzzerVars, logVars>>
              /\ lastExitTriggerTime' = trigTime
              /\ exitSensorTriggered' =
                   IF ~currentState /\ latched
                      /\ Sub32(now, trigTime) > Units(EXIT_DEBOUNCE_MS)
                   THEN FALSE
                   ELSE latched
              /\ lastExitSensorState' = currentState
  /\ exitPin' = currentState
  /\ inputs' = IF currentState = exitPin THEN inputs ELSE inputs + 1
  /\ UNCHANGED <<now, wallMs, nvs, pendVars, cmdQVars, scanUid, netVars,
                 remoteVars, applied, reboots, bootAt, env, fixedVars>>

\* handleExitSensor without its two tests of the time since the last trigger
handleExitSensorNoDebounce(currentState) ==
  /\ rfPc = "exit" \/ (rfPc = "cmd" /\ Len(commandQueue) = 0)
  /\ rfPc' = "card"
  /\ IF FALSE
     THEN \* bounce: return before anything is written
          UNCHANGED <<exitVars, relayVars, buzzerVars, logVars>>
     ELSE LET trigger == currentState /\ ~lastExitSensorState
                           /\ ~exitSensorTriggered
              latched == IF trigger THEN TRUE ELSE exitSensorTriggered
              trigTime == IF trigger THEN now ELSE lastExitTriggerTime
          IN  /\ IF trigger
                 THEN /\ activateRelay(RELAY_DEFAULT_DURATION)
                      /\ activateBuzzer(100)
                      /\ logSend(LogEntry(EXIT_SENSOR, ExitButton,
                                          "granted", "exit"))
                 ELSE UNCHANGED <<relayVars, buzzerVars, logVars>>
              /\ lastExitTriggerTime' = trigTime
              /\ exitSensorTriggered' =
                   IF ~currentState /\ latched
                   THEN FALSE
                   ELSE latched
              /\ lastExitSensorState' = currentState
  /\ exitPin' = currentState
  /\ inputs' = IF currentState = exitPin THEN inputs ELSE inputs + 1
  /\ UNCHANGED <<now, wallMs, nvs, pendVars, cmdQVars, scanUid, netVars,
                 remoteVars, applied, reboots, bootAt, env, fixedVars>>

\* handleExitSensor clearing the latch as soon as the debounce interval is over
handleExitSensorAtLeast(currentState) ==
  /\ rfPc = "exit" \/ (rfPc = "cmd" /\ Len(commandQueue) = 0)
  /\ rfPc' = "card"
  /\ IF currentState # lastExitSensorState
        /\ Sub32(now, lastExitTriggerTime) < Units(EXIT_DEBOUNCE_MS)
     THEN \* bounce: return before anything is written
          UNCHANGED <<exitVars, relayVars, buzzerVars, logVars>>
     ELSE LET trigger == currentState /\ ~lastExitSensorState
                           /\ ~exitSensorTriggered
              latched == IF trigger THEN TRUE ELSE exitSensorTriggered
              trigTime == IF trigger THEN now ELSE lastExitTriggerTime
          IN  /\ IF trigger
                 THEN /\ activateRelay(RELAY_DEFAULT_DURATION)
                      /\ activateBuzzer(100)
                      /\ logSend(LogEntry(EXIT_SENSOR, ExitButton,
                                          "granted", "exit"))
                 ELSE UNCHANGED <<relayVars, buzzerVars, logVars>>
              /\ lastExitTriggerTime' = trigTime
              /\ exitSensorTriggered' =
                   IF ~currentState /\ latched
                      /\ Sub32(now, trigTime) >= Units(EXIT_DEBOUNCE_MS)
                   THEN FALSE
                   ELSE latched
              /\ lastExitSensorState' = currentState
  /\ exitPin' = currentState
  /\ inputs' = IF currentState = exitPin THEN inputs ELSE inputs + 1
  /\ UNCHANGED <<now, wallMs, nvs, pendVars, cmdQVars, scanUid, netVars,
                 remoteVars, applied, reboots, bootAt, env, fixedVars>>

\* AccessController::handleExitSensor; currentState is the level of the pin.
\* It runs after handleCommand, or straight away when xQueueReceive found the
\* command queue empty.
handleExitSensor(currentState) ==
  /\ rfPc = "exit" \/ (rfPc = "cmd" /\ Len(commandQueue) = 0)
  /\ rfPc' = "card"
  /\ IF currentState # lastExitSensorState
        /\ Sub32(now, lastExitTriggerTime) < Units(EXIT_DEBOUNCE_MS)
     THEN \* bounce: return before anything is written
          UNCHANGED <<exitVars, relayVars, buzzerVars, logVars>>
     ELSE LET trigger == currentState /\ ~lastExitSensorState
                           /\ ~exitSensorTriggered
              latched == IF trigger THEN TRUE ELSE exitSensorTriggered
              trigTime == IF trigger THEN now ELSE lastExitTriggerTime
          IN  /\ IF trigger
                 THEN /\ activateRelay(RELAY_DEFAULT_DURATION)
                      /\ activateBuzzer(100)
                      /\ logSend(LogEntry(EXIT_SENSOR, ExitButton,
                                          "granted", "exit"))
                 ELSE UNCHANGED <<relayVars, buzzerVars, logVars>>
              /\ lastExitTriggerTime' = trigTime
              /\ exitSensorTriggered' =
                   IF ~currentState /\ latched
                      /\ Sub32(now, trigTime) > Units(EXIT_DEBOUNCE_MS)
                   THEN FALSE
                   ELSE latched
              /\ lastExitSensorState' = currentState
  /\ exitPin' = currentState
  /\ inputs' = IF currentState = exitPin THEN inputs ELSE inputs + 1
  /\ UNCHANGED <<now, wallMs, nvs, pendVars, cmdQVars, scanUid, netVars,
                 remoteVars, applied, reboots, bootAt, env, fixedVars>>

\* the levels the pin can have at this read: it may have changed since the
\* last one
PinLevels ==
  {exitPin} \cup {l \in env.levels : inputs < env.inputs}

RfidExit == \E level \in PinLevels : handleExitSensor(level)

NoUid == <<>>

\* the unknown-card tail of handleRFIDScan: pending notice, buzz, audit record
unknownTail(uid) ==
  /\ pendingSend(uid)
  /\ activateBuzzer(500)
  /\ logSend(LogEntry(uid, Unknown, "pending", "rfid"))

\* rfidTask: a card is read, its uid goes to handleRFIDScan in upper case
RfidCardRead ==
  /\ rfPc = "card"
  /\ inputs < env.inputs
  /\ rfPc' = "scan"
  /\ \E uid \in env.scans : scanUid' = toUpperCase(uid)
  /\ inputs' = inputs + 1
  /\ UNCHANGED <<now, wallMs, nvs, relayVars, buzzerVars, exitVars, logVars,
                 pendVars, cmdQVars, netVars, remoteVars, applied, reboots,
                 bootAt, env, exitPin, fixedVars>>

\* handleRFIDScan that looks at the blacklist before the whitelist
scanBeginDenyFirst(ok) ==
  /\ rfPc = "scan"
  /\ IF ~isValidUID(scanUid)
     THEN /\ activateBuzzer(200)
          /\ rfPc' = "update"
          /\ scanUid' = NoUid
     ELSE /\ rfPc' = IF isBlacklisted(scanUid, ok) THEN "denied"
                     ELSE IF isWhitelisted(scanUid, ok) THEN "granted"
                     ELSE "unknown"
          /\ UNCHANGED <<scanUid, buzzerVars>>
  /\ UNCHANGED <<now, wallMs, nvs, relayVars, exitVars, logVars, pendVars,
                 cmdQVars, netVars, remoteVars, histVars>>

\* handleRFIDScan, up to and including isWhitelisted(uid)
scanBegin(ok) ==
  /\ rfPc = "scan"
  /\ IF ~isValidUID(scanUid)
     THEN /\ activateBuzzer(200)
          /\ rfPc' = "update"
          /\ scanUid' = NoUid
     ELSE /\ rfPc' = IF isWhitelisted(scanUid, ok) THEN "granted" ELSE "black"
          /\ UNCHANGED <<scanUid, buzzerVars>>
  /\ UNCHANGED <<now, wallMs, nvs, relayVars, exitVars, logVars, pendVars,
                 cmdQVars, netVars, remoteVars, histVars>>

\* handleRFIDScan, whitelist branch: getName, relay, buzzer, audit record
scanGranted(ok) ==
  /\ rfPc = "granted"
  /\ activateRelay(RELAY_DEFAULT_DURATION)
  /\ activateBuzzer(100)
  /\ logSend(LogEntry(scanUid, getName(scanUid, "whitelist", ok),
                      "granted", "rfid"))
  /\ rfPc' = "update"
  /\ scanUid' = NoUid
  /\ UNCHANGED <<now, wallMs, nvs, exitVars, pendVars, cmdQVars, netVars,
                 remoteVars, histVars>>

\* handleRFIDScan: isBlacklisted(uid)
scanBlack(ok) ==
  /\ rfPc = "black"
  /\ rfPc' = IF isBlacklisted(scanUid, ok) THEN "denied" ELSE "unknown"
  /\ UNCHANGED <<now, wallMs, nvs, relayVars, buzzerVars, exitVars, logVars,
                 pendVars, cmdQVars, scanUid, netVars, remoteVars, histVars>>

\* handleRFIDScan, blacklist branch: getName, long buzz, audit record
scanDenied(ok) ==
  /\ rfPc = "denied"
  /\ activateBuzzer(2000)
  /\ logSend(LogEntry(scanUid, getName(scanUid, "blacklist", ok),
                      "denied", "rfid"))
  /\ rfPc' = "update"
  /\ scanUid' = NoUid
  /\ UNCHANGED <<now, wallMs, nvs, relayVars, exitVars, pendVars, cmdQVars,
                 netVars, remoteVars, histVars>>

\* handleRFIDScan, unknown card: isPending(uid); a card already pending goes
\* straight on to the notice, the buzz and the audit record
scanUnknown(ok) ==
  /\ rfPc = "unknown"
  /\ IF ~isPending(scanUid, ok)
     THEN /\ rfPc' = "addPending"
          /\ UNCHANGED <<scanUid, buzzerVars, logVars, pendVars>>
     ELSE /\ unknownTail(scanUid)
          /\ rfPc' = "update"
          /\ scanUid' = NoUid
  /\ UNCHANGED <<now, wallMs, nvs, relayVars, exitVars, cmdQVars, netVars,
                 remoteVars, histVars>>

\* handleRFIDScan, unknown card: addToPending(uid, "Unknown"), then the tail
scanAddPending(ok) ==
  /\ rfPc = "addPending"
  /\ nvs' = addToList("pending", scanUid, Unknown, ok)
  /\ unknownTail(scanUid)
  /\ rfPc' = "update"
  /\ scanUid' = NoUid
  /\ UNCHANGED <<now, wallMs, relayVars, exitVars, cmdQVars, netVars,
                 remoteVars, histVars>>

RfidScan ==
  \/ \E ok \in Storage : scanBegin(ok)
  \/ \E ok \in Storage : scanGranted(ok)
  \/ \E ok \in Storage : scanBlack(ok)
  \/ \E ok \in Storage : scanDenied(ok)
  \/ \E ok \in Storage : scanUnknown(ok)
  \/ \E ok \in Storage : scanAddPending(ok)

\* an update that lets an output run until its deadline has passed
updateStrict ==
  /\ relayActive' =
       IF relayActive /\ Sub32(now, relayStartTime) > relayDuration
       THEN FALSE ELSE relayActive
  /\ buzzerActive' =
       IF buzzerActive /\ Sub32(now, buzzerStartTime) > buzzerDuration
       THEN FALSE ELSE buzzerActive
  /\ UNCHANGED <<relayStartTime, relayDuration, lastUnlock, unlockCount,
                 buzzerStartTime, buzzerDuration>>

\* AccessController::update
update ==
  /\ relayActive' =
       IF relayActive /\ Sub32(now, relayStartTime) >= relayDuration
       THEN FALSE ELSE relayActive
  /\ buzzerActive' =
       IF buzzerActive /\ Sub32(now, buzzerStartTime) >= buzzerDuration
       THEN FALSE ELSE buzzerActive
  /\ UNCHANGED <<relayStartTime, relayDuration, lastUnlock, unlockCount,
                 buzzerStartTime, buzzerDuration>>

\* rfidTask, end of a cycle: no new card is present ("card") or the scan has
\* been handled ("update"); update(), then vTaskDelay and the clock moves on
RfidCycleEnd ==
  /\ rfPc \in {"card", "update"}
  /\ update
  /\ \E d \in env.steps :
       /\ Sub32(now, bootAt) + Units(d)
            <= MaxHalfSeconds * Units(EXIT_DEBOUNCE_MS)
       /\ now' = (now + Units(d)) % WrapUnits
       /\ wallMs' = wallMs + Units(d)
  /\ rfPc' = "cmd"
  /\ UNCHANGED <<nvs, exitVars, logVars, pendVars, cmdQVars, scanUid, netVars,
                 remoteVars, histVars>>

\* rfidTask, end of a cycle after the clock has reached the end of the
\* observed time: the loop goes on for as long as an output is on
RfidTickOn ==
  /\ rfPc \in {"card", "update"}
  /\ relayActive \/ buzzerActive
  /\ update
  /\ \E d \in env.steps :
       /\ Sub32(now, bootAt) + Units(d)
            > MaxHalfSeconds * Units(EXIT_DEBOUNCE_MS)
       /\ now' = (now + Units(d)) % WrapUnits
       /\ wallMs' = wallMs + Units(d)
  /\ rfPc' = "cmd"
  /\ UNCHANGED <<nvs, exitVars, logVars, pendVars, cmdQVars, scanUid, netVars,
                 remoteVars, histVars>>

(***************************************************************************)
(* CloudService (firebaseTask, core 0)                                     *)
(***************************************************************************)
\* outcome of one request to the remote database: it can only succeed while
\* the network is up
Transport == IF wifi THEN env.transport ELSE {FALSE}

\* getEpochTime()
getEpochTime == wallMs \div Units(1000)

\* the registry mirror after setJSON / setString on /{list}/{uid}
mirrorSet(tree, list, uid, name, t) ==
  IF t THEN putString(tree, list, uid, name) ELSE tree

\* the registry mirror after deleteNode on /{list}/{uid}
mirrorDelete(tree, list, uid, t) ==
  IF t THEN removeKey(tree, list, uid) ELSE tree

\* CloudService::reportCommandError: /commandErrors/{epoch} after the call
reportCommandError(command, error, originalData, t) ==
  IF ~wifi \/ ~t THEN commandErrors
  ELSE [k \in DOMAIN commandErrors \cup {getEpochTime} |->
          IF k = getEpochTime
          THEN [command |-> command, error |-> error,
                originalData |-> originalData]
          ELSE commandErrors[k]]

\* deleteNode on /commands/{kind}
inboxDelete(kind, t) == IF t THEN [inbox EXCEPT ![kind] = <<>>] ELSE inbox

\* CloudService::updateDeviceStatus: /status after the call
updateDeviceStatus(t) ==
  IF ~wifi \/ ~t THEN deviceStatus
  ELSE [online |-> TRUE, uptime |-> now \div Units(1000),
        logQueueDrops |-> logQueueDrops,
        pendingQueueDrops |-> pendingQueueDrops]

STATUS_UPDATE_INTERVAL == 60000

\* the stages of one pass of firebaseTask, in the order of the code
StageOrder == <<"unlock", "add", "delete", "move", "rename", "logs", "pendq",
                "loop">>

\* a stage has something to do: a command object at its path, or a queue
\* with entries while the network is up
hasWork(stage) ==
  CASE stage \in Kinds -> inbox[stage] # <<>>
    [] stage = "logs" -> wifi /\ Len(logQueue) > 0
    [] stage = "pendq" -> wifi /\ Len(pendingQueue) > 0
    [] OTHER -> TRUE

\* where control is next: a stage with nothing to do returns at once
\* (Firebase.getJSON finds no node, the queue is empty) and is passed over
goto(stage) ==
  LET from == CHOOSE i \in 1..Len(StageOrder) : StageOrder[i] = stage
      first == CHOOSE i \in from..Len(StageOrder) :
                 /\ hasWork(StageOrder[i])
                 /\ \A k \in from..(i - 1) : ~hasWork(StageOrder[k])
  IN  StageOrder[first]

\* a loop whose checkCommands polls whatever the time since the last poll
FbLoopNoWait ==
  /\ fbPc = "loop"
  /\ \E t \in Transport :
       IF wifi
       THEN /\ firebaseReady' = TRUE
            /\ IF ~firebaseReady
                  \/ Sub32(now, lastStatusUpdate) > Units(STATUS_UPDATE_INTERVAL)
               THEN deviceStatus' = updateDeviceStatus(t)
               ELSE UNCHANGED deviceStatus
            /\ lastStatusUpdate' =
                 IF Sub32(now, lastStatusUpdate) > Units(STATUS_UPDATE_INTERVAL)
                 THEN now ELSE lastStatusUpdate
            /\ fbPc' = goto("unlock")
            /\ lastCommandCheck' = now
       ELSE /\ firebaseReady' = FALSE
            /\ UNCHANGED <<deviceStatus, lastStatusUpdate, lastCommandCheck,
                           fbPc>>
  /\ UNCHANGED <<now, wallMs, nvs, relayVars, buzzerVars, exitVars, logVars,
                 pendVars, cmdQVars, rfVars, wifi, cur, processed, drained,
                 inbox, fb,
                 commandErrors, fbLogs, submitted, histVars>>

\* firebaseTask: top of the loop down to the interval test of checkCommands
FbLoop ==
  /\ fbPc = "loop"
  /\ \E t \in Transport :
       IF wifi
       THEN /\ firebaseReady' = TRUE
            /\ IF ~firebaseReady
                  \/ Sub32(now, lastStatusUpdate) > Units(STATUS_UPDATE_INTERVAL)
               THEN deviceStatus' = updateDeviceStatus(t)
               ELSE UNCHANGED deviceStatus
            /\ lastStatusUpdate' =
                 IF Sub32(now, lastStatusUpdate) > Units(STATUS_UPDATE_INTERVAL)
                 THEN now ELSE lastStatusUpdate
            /\ IF Sub32(now, lastCommandCheck) < Units(COMMAND_CHECK_INTERVAL)
               THEN /\ fbPc' = goto("logs")
                    /\ UNCHANGED lastCommandCheck
               ELSE /\ fbPc' = goto("unlock")
                    /\ lastCommandCheck' = now
       ELSE /\ firebaseReady' = FALSE
            /\ UNCHANGED <<deviceStatus, lastStatusUpdate, lastCommandCheck,
                           fbPc>>
  /\ UNCHANGED <<now, wallMs, nvs, relayVars, buzzerVars, exitVars, logVars,
                 pendVars, cmdQVars, rfVars, wifi, cur, processed, drained,
                 inbox, fb,
                 commandErrors, fbLogs, submitted, histVars>>

\* what every command handler leaves alone
handlerFrame ==
  UNCHANGED <<now, wallMs, relayVars, buzzerVars, exitVars, logVars, pendVars,
              rfVars, wifi, firebaseReady, lastCommandCheck, lastStatusUpdate,
              processed, drained, fbLogs, deviceStatus, submitted, reboots,
              bootAt, env, exitPin, inputs, fixedVars>>

\* a handler returns without touching anything
skipTo(stage) ==
  /\ fbPc' = goto(stage)
  /\ UNCHANGED <<nvs, cmdQVars, cur, inbox, fb, commandErrors, applied>>

\* an invalid command: reportCommandError, then deleteNode, then return
rejectTo(stage, kind, error, originalData, e, d) ==
  /\ commandErrors' = reportCommandError(kind, error, originalData, e)
  /\ inbox' = inboxDelete(kind, d)
  /\ fbPc' = goto(stage)
  /\ UNCHANGED <<nvs, cmdQVars, cur, fb, applied>>

\* a handler that goes on without removing the command from the inbox
commitKeep(stage, failStage, kind, parsed, d) ==
  /\ fbPc' = stage /\ cur' = parsed
  /\ UNCHANGED <<nvs, cmdQVars, fb, commandErrors, applied, inbox>>

\* a handler that goes on whether or not the deleteNode succeeded
commitAlways(stage, failStage, kind, parsed, d) ==
  /\ inbox' = inboxDelete(kind, d)
  /\ fbPc' = stage /\ cur' = parsed
  /\ UNCHANGED <<nvs, cmdQVars, fb, commandErrors, applied>>

\* a valid command: deleteNode; only when it succeeds does the handler go on
commitTo(stage, failStage, kind, parsed, d) ==
  /\ inbox' = inboxDelete(kind, d)
  /\ IF d THEN fbPc' = stage /\ cur' = parsed
          ELSE fbPc' = goto(failStage) /\ UNCHANGED cur
  /\ UNCHANGED <<nvs, cmdQVars, fb, commandErrors, applied>>

\* the history of executions: the command of `cur` has been executed once more
executed == [applied EXCEPT ![cur.id] = @ + 1]

\* CloudService::handleUnlockCommand up to the deleteNode
handleUnlockCommand(g, e, d) ==
  /\ fbPc = "unlock"
  /\ handlerFrame
  /\ IF ~g \/ inbox["unlock"] = <<>> THEN skipTo("add")
     ELSE LET c == inbox["unlock"][1]
              duration == c.duration
              originalData == <<"duration", duration>>
          IN  IF "duration" \notin c.has THEN skipTo("add")
              ELSE IF ~isValidDuration(duration)
              THEN rejectTo("add", "unlock",
                            "Invalid duration (must be 1-300)",
                            originalData, e, d)
              ELSE commitTo("unlockExec", "add", "unlock",
                            [NoCur EXCEPT !.kind = "unlock", !.id = c.id,
                                          !.duration = duration], d)

\* CloudService::handleUnlockCommand: the Command is queued for rfidTask
unlockExec ==
  /\ fbPc = "unlockExec"
  /\ handlerFrame
  /\ commandSend([type |-> "UNLOCK", duration |-> Mul1000(cur.duration)])
  /\ applied' = executed
  /\ cur' = NoCur
  /\ fbPc' = goto("add")
  /\ UNCHANGED <<nvs, inbox, fb, commandErrors>>

\* the name a handler takes from the optional field "name"
parsedName(c) == IF "name" \in c.has THEN sanitizeName(c.name) ELSE Unknown

\* CloudService::handleAddCommand up to the deleteNode
handleAddCommand(g, e, d) ==
  /\ fbPc = "add"
  /\ handlerFrame
  /\ IF ~g \/ inbox["add"] = <<>> THEN skipTo("delete")
     ELSE LET c == inbox["add"][1]
              list == c.list
              uid == toUpperCase(c.uid)
              name == parsedName(c)
              originalData == <<list, uid, name>>
          IN  IF "list" \notin c.has \/ "uid" \notin c.has
              THEN skipTo("delete")
              ELSE IF ~isValidList(list)
              THEN rejectTo("delete", "add", "Invalid list type",
                            originalData, e, d)
              ELSE IF ~isValidUID(uid)
              THEN rejectTo("delete", "add", "Invalid UID format",
                            originalData, e, d)
              ELSE commitTo("addApply", "delete", "add",
                            [NoCur EXCEPT !.kind = "add", !.id = c.id,
                                          !.list = list, !.uid = uid,
                                          !.name = name], d)

\* CloudService::handleAddCommand: addToList, and the error report if it fails
addApply(ok, e) ==
  /\ fbPc = "addApply"
  /\ handlerFrame
  /\ nvs' = addToList(cur.list, cur.uid, cur.name, ok)
  /\ applied' = executed
  /\ IF ~addToListResult(cur.list, cur.uid, cur.name, ok)
     THEN /\ commandErrors' =
               reportCommandError("add", "NVS write failed",
                                  <<cur.list, cur.uid, cur.name>>, e)
          /\ fbPc' = goto("delete")
          /\ cur' = NoCur
     ELSE /\ fbPc' = "addMirror"
          /\ UNCHANGED <<commandErrors, cur>>
  /\ UNCHANGED <<cmdQVars, inbox, fb>>

\* CloudService::handleAddCommand: setJSON on the mirror
addMirror(t) ==
  /\ fbPc = "addMirror"
  /\ handlerFrame
  /\ fb' = mirrorSet(fb, cur.list, cur.uid, cur.name, t)
  /\ cur' = NoCur
  /\ fbPc' = goto("delete")
  /\ UNCHANGED <<nvs, cmdQVars, inbox, commandErrors, applied>>

\* CloudService::handleDeleteCommand up to the deleteNode
handleDeleteCommand(g, e, d) ==
  /\ fbPc = "delete"
  /\ handlerFrame
  /\ IF ~g \/ inbox["delete"] = <<>> THEN skipTo("move")
     ELSE LET c == inbox["delete"][1]
              list == c.list
              uid == toUpperCase(c.uid)
              originalData == <<list, uid>>
          IN  IF "list" \notin c.has \/ "uid" \notin c.has
              THEN skipTo("move")
              ELSE IF ~isValidList(list)
              THEN rejectTo("move", "delete", "Invalid list type",
                            originalData, e, d)
              ELSE IF ~isValidUID(uid)
              THEN rejectTo("move", "delete", "Invalid UID format",
                            originalData, e, d)
              ELSE commitTo("deleteApply", "move", "delete",
                            [NoCur EXCEPT !.kind = "delete", !.id = c.id,
                                          !.list = list, !.uid = uid], d)

\* CloudService::handleDeleteCommand: removeFromList, its result not read
deleteApply(ok) ==
  /\ fbPc = "deleteApply"
  /\ handlerFrame
  /\ nvs' = removeFromList(cur.list, cur.uid, ok)
  /\ applied' = executed
  /\ fbPc' = "deleteMirror"
  /\ UNCHANGED <<cmdQVars, cur, inbox, fb, commandErrors>>

\* CloudService::handleDeleteCommand: deleteNode on the mirror
deleteMirror(t) ==
  /\ fbPc = "deleteMirror"
  /\ handlerFrame
  /\ fb' = mirrorDelete(fb, cur.list, cur.uid, t)
  /\ cur' = NoCur
  /\ fbPc' = goto("move")
  /\ UNCHANGED <<nvs, cmdQVars, inbox, commandErrors, applied>>

\* CloudService::handleMoveCommand up to the deleteNode; without a "name"
\* field the name is read from the source list before anything is validated
handleMoveCommand(g, ok, e, d) ==
  /\ fbPc = "move"
  /\ handlerFrame
  /\ IF ~g \/ inbox["move"] = <<>> THEN skipTo("rename")
     ELSE LET c == inbox["move"][1]
              fromList == c.list
              toList == c.to
              uid == toUpperCase(c.uid)
              name == IF "name" \in c.has THEN sanitizeName(c.name)
                      ELSE getName(uid, fromList, ok)
              originalData == <<fromList, toList, uid>>
          IN  IF "from" \notin c.has \/ "to" \notin c.has
                 \/ "uid" \notin c.has
              THEN skipTo("rename")
              ELSE IF ~isValidList(fromList) \/ ~isValidList(toList)
              THEN rejectTo("rename", "move", "Invalid list type",
                            originalData, e, d)
              ELSE IF ~isValidUID(uid)
              THEN rejectTo("rename", "move", "Invalid UID format",
                            originalData, e, d)
              ELSE IF fromList = toList
              THEN rejectTo("rename", "move",
                            "Source and destination are the same",
                            originalData, e, d)
              ELSE commitTo("moveRemove", "rename", "move",
                            [NoCur EXCEPT !.kind = "move", !.id = c.id,
                                          !.list = fromList, !.to = toList,
                                          !.uid = uid, !.name = name], d)

\* CloudService::handleMoveCommand: removeFromList(fromList, uid)
moveRemove(ok) ==
  /\ fbPc = "moveRemove"
  /\ handlerFrame
  /\ nvs' = removeFromList(cur.list, cur.uid, ok)
  /\ applied' = executed
  /\ fbPc' = "moveAdd"
  /\ UNCHANGED <<cmdQVars, cur, inbox, fb, commandErrors>>

\* CloudService::handleMoveCommand: addToList(toList, uid, name)
moveAdd(ok) ==
  /\ fbPc = "moveAdd"
  /\ handlerFrame
  /\ nvs' = addToList(cur.to, cur.uid, cur.name, ok)
  /\ fbPc' = "moveMirror"
  /\ UNCHANGED <<cmdQVars, cur, inbox, fb, commandErrors, applied>>

\* CloudService::handleMoveCommand: deleteNode and setJSON on the mirror
moveMirror(t1, t2) ==
  /\ fbPc = "moveMirror"
  /\ handlerFrame
  /\ fb' = mirrorSet(mirrorDelete(fb, cur.list, cur.uid, t1),
                     cur.to, cur.uid, cur.name, t2)
  /\ cur' = NoCur
  /\ fbPc' = goto("rename")
  /\ UNCHANGED <<nvs, cmdQVars, inbox, commandErrors, applied>>

\* CloudService::handleRenameCommand up to the deleteNode
handleRenameCommand(g, e, d) ==
  /\ fbPc = "rename"
  /\ handlerFrame
  /\ IF ~g \/ inbox["rename"] = <<>> THEN skipTo("logs")
     ELSE LET c == inbox["rename"][1]
              list == c.list
              uid == toUpperCase(c.uid)
              newName == sanitizeName(c.name)
              originalData == <<list, uid, newName>>
          IN  IF "list" \notin c.has \/ "uid" \notin c.has
                 \/ "name" \notin c.has
              THEN skipTo("logs")
              ELSE IF ~isValidList(list)
              THEN rejectTo("logs", "rename", "Invalid list type",
                            originalData, e, d)
              ELSE IF ~isValidUID(uid)
              THEN rejectTo("logs", "rename", "Invalid UID format",
                            originalData, e, d)
              ELSE commitTo("renameApply", "logs", "rename",
                            [NoCur EXCEPT !.kind = "rename", !.id = c.id,
                                          !.list = list, !.uid = uid,
                                          !.name = newName], d)

\* CloudService::handleRenameCommand: addToList overwrites, its result not read
renameApply(ok) ==
  /\ fbPc = "renameApply"
  /\ handlerFrame
  /\ nvs' = addToList(cur.list, cur.uid, cur.name, ok)
  /\ applied' = executed
  /\ fbPc' = "renameMirror"
  /\ UNCHANGED <<cmdQVars, cur, inbox, fb, commandErrors>>

\* CloudService::handleRenameCommand: setString on the mirror's name
renameMirror(t) ==
  /\ fbPc = "renameMirror"
  /\ handlerFrame
  /\ fb' = mirrorSet(fb, cur.list, cur.uid, cur.name, t)
  /\ cur' = NoCur
  /\ fbPc' = goto("logs")
  /\ UNCHANGED <<nvs, cmdQVars, inbox, commandErrors, applied>>

\* CloudService::checkCommands: the five handlers in their order
FbCommands ==
  \/ \E g, e, d \in Transport : handleUnlockCommand(g, e, d)
  \/ unlockExec
  \/ \E g, e, d \in Transport : handleAddCommand(g, e, d)
  \/ \E ok \in Storage, e \in Transport : addApply(ok, e)
  \/ \E t \in Transport : addMirror(t)
  \/ \E g, e, d \in Transport : handleDeleteCommand(g, e, d)
  \/ \E ok \in Storage : deleteApply(ok)
  \/ \E t \in Transport : deleteMirror(t)
  \/ \E g, e, d \in Transport, ok \in Storage :
       handleMoveCommand(g, ok, e, d)
  \/ \E ok \in Storage : moveRemove(ok)
  \/ \E ok \in Storage : moveAdd(ok)
  \/ \E t1, t2 \in Transport : moveMirror(t1, t2)
  \/ \E g, e, d \in Transport : handleRenameCommand(g, e, d)
  \/ \E ok \in Storage : renameApply(ok)
  \/ \E t \in Transport : renameMirror(t)

\* what the two queue drains leave alone
drainFrame ==
  UNCHANGED <<now, wallMs, nvs, relayVars, buzzerVars, exitVars, cmdQVars,
              rfVars, wifi, firebaseReady, lastCommandCheck, lastStatusUpdate,
              cur, inbox, commandErrors, deviceStatus, submitted, histVars>>

\* CloudService::processLogQueue: the connectivity test on entry ("logs"),
\* then one turn of its loop per step ("logsLoop")
processLogQueue(t) ==
  /\ fbPc \in {"logs", "logsLoop"}
  /\ drainFrame
  /\ UNCHANGED <<logQueueDrops, pendVars, fb, drained>>
  /\ IF (fbPc = "logs" => wifi) /\ processed < MAX_BATCH /\ Len(logQueue) > 0
     THEN /\ logQueue' = Tail(logQueue)
          /\ fbLogs' =
               IF t
               THEN LET key == <<getEpochTime, processed>>
                    IN  [k \in DOMAIN fbLogs \cup {key} |->
                           IF k = key THEN Head(logQueue) ELSE fbLogs[k]]
               ELSE fbLogs
          /\ processed' = processed + 1
          /\ fbPc' = "logsLoop"
     ELSE /\ fbPc' = goto("pendq")
          /\ processed' = 0
          /\ UNCHANGED <<logQueue, fbLogs>>

\* CloudService::processPendingQueue: the connectivity test on entry
\* ("pendq"), then one turn of its loop per step ("pendqLoop")
processPendingQueue(t) ==
  /\ fbPc \in {"pendq", "pendqLoop"}
  /\ drainFrame
  /\ UNCHANGED <<pendingQueueDrops, logVars, fbLogs, processed>>
  /\ IF (fbPc = "pendq" => wifi) /\ Len(pendingQueue) > 0
     THEN /\ pendingQueue' = Tail(pendingQueue)
          /\ fb' = mirrorSet(fb, "pending", Head(pendingQueue), Unknown, t)
          /\ drained' = drained + 1
          /\ fbPc' = "pendqLoop"
     ELSE /\ fbPc' = goto("loop")
          /\ drained' = 0
          /\ UNCHANGED <<pendingQueue, fb>>

FbQueues ==
  \/ \E t \in Transport : processLogQueue(t)
  \/ \E t \in Transport : processPendingQueue(t)

(***************************************************************************)
(* Environment: the remote side, the network, power                        *)
(***************************************************************************)
RawAlice == <<" ", "A", "l", "i", "c", "e", " ">>

\* command objects as the remote side writes them
Unlock(d) == <<"unlock", Cmd(0, {"duration"}, "", "", <<>>, <<>>, d)>>
Add(l, u, n) == <<"add", Cmd(0, {"list", "uid", "name"}, l, "", u, n, 0)>>
AddNoName(l, u) == <<"add", Cmd(0, {"list", "uid"}, l, "", u, <<>>, 0)>>
Delete(l, u) == <<"delete", Cmd(0, {"list", "uid"}, l, "", u, <<>>, 0)>>
Move(f, t, u) == <<"move", Cmd(0, {"from", "to", "uid"}, f, t, u, <<>>, 0)>>
MoveNamed(f, t, u, n) ==
  <<"move", Cmd(0, {"from", "to", "uid", "name"}, f, t, u, n, 0)>>
Rename(l, u, n) ==
  <<"rename", Cmd(0, {"list", "uid", "name"}, l, "", u, n, 0)>>
\* a command object that lacks the fields its handler needs
Bare(kind) == <<kind, Cmd(0, {}, "", "", <<>>, <<>>, 0)>>

\* An environment: the cards presented (scans), the command objects the
\* remote side writes (cmds), the levels of the exit pin (levels), the lengths
\* in ms of an rfidTask cycle (steps), the outcomes of taking the mutex and
\* opening NVS (storage) and of a remote request while connected (transport),
\* the network state at boot (wifi0) and whether it changes later (flaps),
\* whether power can fail (power), and what NVS holds at boot (nvs0).  The
\* mutex can be created and there are at most MaxInputs physical inputs,
\* unless the environment says otherwise.
Environment(scans, cmds, levels, steps, storage, transport, wifi0, flaps, power, nvs0) ==
  [scans |-> scans, cmds |-> cmds, levels |-> levels, steps |-> steps,
   storage |-> storage, transport |-> transport, wifi0 |-> wifi0,
   flaps |-> flaps, power |-> power, nvs0 |-> nvs0, mutex |-> TRUE,
   inputs |-> MaxInputs]

Empty3 == [l \in Lists |-> Empty]

Reliable == {TRUE}

\* a registry written by an earlier run: one card allowed, one denied
Door0 ==
  putString(putString(Empty3, "whitelist", UID_A, Alice),
            "blacklist", UID_B, Bob)

\* the door off line: an allowed, a denied and an unknown card, the clock
EnvDoor ==
  Environment({UID_a, UID_b, UID_c}, {}, {FALSE},
              {1000, UNLOCK_COOLDOWN_MS}, Reliable, Reliable, {FALSE},
              FALSE, FALSE, Door0)

\* the exit button off line
EnvExit ==
  Environment({}, {}, BOOLEAN, {300, EXIT_DEBOUNCE_MS, UNLOCK_COOLDOWN_MS}, Reliable, Reliable,
              {FALSE}, FALSE, FALSE, Empty3)

\* a string of n characters "A"
Rep(n) == [i \in 1..n |-> "A"]

\* the string s with character c at position i
WithAt(s, i, c) == [s EXCEPT ![i] = c]

\* identifiers around every limit of isValidUID: too short, too long, of odd
\* length, with a character that is no hex digit
UidFamily ==
  {Rep(n) : n \in {0, 6, 7, 8, 9, 10, 19, 20, 21, 22}}
    \cup {UID_ODD, UID_NOHEX, WithAt(Rep(8), 8, "G"), WithAt(Rep(20), 1, "x"),
          WithAt(Rep(22), 3, "G"), WithAt(Rep(9), 9, "_")}

\* identifiers of every shape handed to handleRFIDScan, off line
EnvCards ==
  Environment(UidFamily, {}, {FALSE}, {UNLOCK_COOLDOWN_MS}, Reliable,
              Reliable, {FALSE}, FALSE, FALSE, Door0)

\* cards while the mutex or NVS can fail
EnvStorage ==
  Environment({UID_a, UID_c}, {}, {FALSE}, {UNLOCK_COOLDOWN_MS}, BOOLEAN,
              Reliable, {FALSE}, FALSE, FALSE, Door0)

\* registry commands on one card that is also presented, no faults
EnvRegistry ==
  Environment({UID_a},
              {Add("whitelist", UID_a, RawAlice),
               Add("blacklist", UID_a, RawAlice)},
              {FALSE}, {UNLOCK_COOLDOWN_MS}, Reliable, Reliable, {TRUE},
              FALSE, FALSE, Empty3)

\* the other registry commands, no faults
EnvEdit ==
  Environment({},
              {AddNoName("pending", UID_a),
               Delete("pending", UID_a),
               Move("pending", "whitelist", UID_a),
               Rename("pending", UID_a, RawAlice)},
              {FALSE}, {UNLOCK_COOLDOWN_MS}, Reliable, Reliable, {TRUE},
              FALSE, FALSE, Empty3)

\* commands that fail validation or lack fields, no faults
EnvInvalid ==
  Environment({},
              {Unlock(0), Unlock(301), Bare("unlock"),
               Add("admins", UID_a, RawAlice), Add("whitelist", UID_ODD, Alice),
               Add("whitelist", UID_NOHEX, Alice), Bare("add"),
               Delete("admins", UID_a), Delete("whitelist", UID_ODD),
               Move("whitelist", "whitelist", UID_a),
               Move("admins", "whitelist", UID_a),
               Move("whitelist", "blacklist", UID_ODD),
               Rename("admins", UID_a, Alice),
               Rename("whitelist", UID_NOHEX, Alice)},
              {FALSE}, {UNLOCK_COOLDOWN_MS}, Reliable, Reliable, {TRUE},
              FALSE, FALSE, Door0)

\* remote unlocks against the clock, no faults
EnvUnlock ==
  Environment({}, {Unlock(1), Unlock(300)}, {FALSE},
              {1000, UNLOCK_COOLDOWN_MS}, Reliable, Reliable, {TRUE}, FALSE,
              FALSE, Empty3)

\* commands while requests to the remote database can fail
EnvLossy ==
  Environment({}, {Unlock(1), Add("whitelist", UID_a, RawAlice), Unlock(0)},
              {FALSE}, {UNLOCK_COOLDOWN_MS}, Reliable, BOOLEAN, {TRUE}, FALSE,
              FALSE, Empty3)

\* commands while requests can fail and power can be lost
EnvPower ==
  Environment({}, {Unlock(1), Add("whitelist", UID_a, RawAlice)},
              {FALSE}, {UNLOCK_COOLDOWN_MS}, Reliable, BOOLEAN, {TRUE}, FALSE,
              TRUE, Empty3)

\* commands while the network comes and goes
EnvOutage ==
  Environment({}, {Add("whitelist", UID_a, RawAlice), Unlock(0)},
              {FALSE}, {UNLOCK_COOLDOWN_MS}, Reliable, Reliable, BOOLEAN, TRUE,
              FALSE, Empty3)

\* registry commands while the mutex or NVS can fail
EnvWear ==
  Environment({},
              {Add("whitelist", UID_a, RawAlice),
               Move("whitelist", "blacklist", UID_a),
               Delete("whitelist", UID_a),
               Rename("whitelist", UID_a, Bob)},
              {FALSE}, {UNLOCK_COOLDOWN_MS}, BOOLEAN, Reliable, {TRUE}, FALSE,
              FALSE, Empty3)

\* a registry with two cards allowed and one denied
Door2 == putString(Door0, "whitelist", UID_C, Bob)

\* the same delete command sent again, no faults
EnvDelete ==
  Environment({}, {Delete("whitelist", UID_a)}, {FALSE},
              {UNLOCK_COOLDOWN_MS}, Reliable, Reliable, {TRUE}, FALSE, FALSE,
              Door2)

\* xSemaphoreCreateMutex returns NULL: cards, the exit button and commands
\* arrive all the same
EnvHalt ==
  [Environment({UID_a}, {Unlock(1), Add("whitelist", UID_c, Alice)}, BOOLEAN,
               {1000}, Reliable, Reliable, {TRUE}, FALSE, FALSE, Door0)
     EXCEPT !.mutex = FALSE]

\* remote unlocks while the network comes and goes: the status is written
\* again each time the connection is back
EnvReport ==
  Environment({}, {Unlock(1)}, {FALSE}, {UNLOCK_COOLDOWN_MS}, Reliable,
              Reliable, {TRUE}, TRUE, FALSE, Empty3)

\* the exit button bouncing: the pin is read every 200 ms
EnvBounce ==
  Environment({}, {}, BOOLEAN, {200}, Reliable, Reliable, {FALSE}, FALSE,
              FALSE, Empty3)

Envs ==
  {EnvDoor, EnvExit, EnvCards, EnvStorage, EnvRegistry, EnvEdit, EnvInvalid,
   EnvUnlock, EnvLossy, EnvPower, EnvOutage, EnvWear, EnvDelete, EnvHalt,
   EnvReport, EnvBounce}

\* the remote side writes a command object to /commands/{kind}
Submit ==
  /\ submitted < MaxSubmit
  /\ \E c \in env.cmds :
       inbox' = [inbox EXCEPT ![c[1]] = <<[c[2] EXCEPT !.id = submitted + 1]>>]
  /\ submitted' = submitted + 1
  /\ UNCHANGED <<now, wallMs, nvs, relayVars, buzzerVars, exitVars, logVars,
                 pendVars, cmdQVars, rfVars, netVars, fb, commandErrors,
                 fbLogs, deviceStatus, histVars>>

\* the network comes or goes
WifiChange ==
  /\ env.flaps
  /\ wifi' = ~wifi
  /\ UNCHANGED <<now, wallMs, nvs, relayVars, buzzerVars, exitVars, logVars,
                 pendVars, cmdQVars, rfVars, firebaseReady, lastCommandCheck,
                 lastStatusUpdate, fbPc, cur, processed, drained,
                 remoteVars,
                 histVars>>

\* what setup() leaves in RAM
Volatile ==
  /\ logQueue = <<>> /\ pendingQueue = <<>> /\ commandQueue = <<>>
  /\ logQueueDrops = 0 /\ pendingQueueDrops = 0 /\ commandQueueDrops = 0
  /\ relayActive = FALSE /\ relayStartTime = 0 /\ relayDuration = 0
  /\ lastUnlock = 0 /\ unlockCount = 0
  /\ buzzerActive = FALSE /\ buzzerStartTime = 0 /\ buzzerDuration = 0
  /\ lastExitSensorState = FALSE /\ exitSensorTriggered = FALSE
  /\ lastExitTriggerTime = 0
  /\ scanUid = NoUid
  /\ firebaseReady = FALSE /\ lastCommandCheck = 0 /\ lastStatusUpdate = 0
  /\ cur = NoCur /\ processed = 0 /\ drained = 0

\* xSemaphoreCreateMutex() in setup()
xSemaphoreCreateMutex == IF env.mutex THEN "free" ELSE "null"

\* no StorageManager call is running
SmIdle == [pc |-> "idle", fn |-> "none", list |-> "", result |-> FALSE]

\* setup() could not create the mutex: while (1) { delay(1000); }
SetupHalt ==
  /\ rfPc = "halt"
  /\ Sub32(now, bootAt) + Units(1000)
       <= MaxHalfSeconds * Units(EXIT_DEBOUNCE_MS)
  /\ now' = (now + Units(1000)) % WrapUnits
  /\ wallMs' = wallMs + Units(1000)
  /\ UNCHANGED <<nvs, relayVars, buzzerVars, exitVars, logVars, pendVars,
                 cmdQVars, rfVars, netVars, remoteVars, histVars>>

\* power loss and restart: RAM is lost, NVS and the remote database are kept
Reboot ==
  /\ env.power
  /\ reboots < MaxReboots
  /\ reboots' = reboots + 1
  /\ logQueue' = <<>> /\ pendingQueue' = <<>> /\ commandQueue' = <<>>
  /\ logQueueDrops' = 0 /\ pendingQueueDrops' = 0 /\ commandQueueDrops' = 0
  /\ relayActive' = FALSE /\ relayStartTime' = 0 /\ relayDuration' = 0
  /\ lastUnlock' = 0 /\ unlockCount' = 0
  /\ buzzerActive' = FALSE /\ buzzerStartTime' = 0 /\ buzzerDuration' = 0
  /\ lastExitSensorState' = FALSE /\ exitSensorTriggered' = FALSE
  /\ lastExitTriggerTime' = 0
  /\ nvsMutex' = xSemaphoreCreateMutex
  /\ rfPc' = setupPc(env.mutex, "cmd") /\ scanUid' = NoUid
  /\ firebaseReady' = FALSE /\ lastCommandCheck' = 0
  /\ lastStatusUpdate' = 0
  /\ fbPc' = setupPc(env.mutex, "loop") /\ cur' = NoCur /\ processed' = 0
  /\ drained' = 0
  /\ wifi' \in env.wifi0
  /\ now' = Units(setupMillis(env.mutex, wifi'))
  /\ bootAt' = Units(setupMillis(env.mutex, wifi'))
  /\ wallMs' = wallMs + Units(setupMillis(env.mutex, wifi'))
  /\ UNCHANGED <<nvs, remoteVars, applied, env, exitPin, inputs, sm, logFile>>

\* the state in environment e with nothing done yet and millis() at clock
BootAt(e, clock) ==
  /\ env = e
  /\ Volatile
  /\ nvsMutex = xSemaphoreCreateMutex
  /\ rfPc = setupPc(env.mutex, "cmd")
  /\ fbPc = setupPc(env.mutex, "loop")
  /\ sm = [t \in Tasks |-> SmIdle]
  /\ logFile = <<>>
  /\ wifi \in env.wifi0
  /\ now = clock
  /\ bootAt = clock
  /\ wallMs = clock
  /\ exitPin = FALSE /\ inputs = 0
  /\ nvs = env.nvs0
  /\ fb = env.nvs0
  /\ inbox = [k \in Kinds |-> <<>>]
  /\ commandErrors = [k \in {} |-> 0]
  /\ fbLogs = [k \in {} |-> 0]
  /\ deviceStatus = [online |-> FALSE, uptime |-> 0, logQueueDrops |-> 0,
                     pendingQueueDrops |-> 0]
  /\ submitted = 0
  /\ applied = [i \in 1..MaxSubmit |-> 0]
  /\ reboots = 0

\* the state when setup() is done, in environment e
Boot(e) == BootAt(e, Units(setupMillis(env.mutex, wifi)))

Init == \E e \in Envs : Boot(e)

RfidTask ==
  \/ RfidCommand
  \/ RfidExit
  \/ RfidCardRead
  \/ RfidScan
  \/ RfidCycleEnd

FirebaseTask ==
  \/ FbLoop
  \/ FbCommands
  \/ FbQueues

Next ==
  \/ RfidTask
  \/ FirebaseTask
  \/ Submit
  \/ WifiChange
  \/ Reboot
  \/ SetupHalt

Spec == Init /\ [][Next]_vars

(***************************************************************************)
(* The outputs over time.  rfidTask runs for ever on its core, and its     *)
(* loop is followed past the end of the observed time while an output is   *)
(* on.  The door is off line with cards and the exit button, or on line    *)
(* with remote unlocks.                                                    *)
(***************************************************************************)
EnvTickLocal ==
  Environment({UID_a, UID_b, UID_c}, {}, BOOLEAN, {RELAY_DEFAULT_DURATION},
              Reliable, Reliable, {FALSE}, FALSE, FALSE, Door0)

EnvTickRemote ==
  Environment({}, {Unlock(1), Unlock(4)}, {FALSE}, {RELAY_DEFAULT_DURATION},
              Reliable, Reliable, {TRUE}, FALSE, FALSE, Door0)

InitTick == Boot(EnvTickLocal) \/ Boot(EnvTickRemote)

NextTick ==
  \/ RfidTask
  \/ RfidTickOn
  \/ FbLoop
  \/ \E g, e, d \in Transport : handleUnlockCommand(g, e, d)
  \/ unlockExec
  \/ Submit

SpecTick ==
  InitTick /\ [][NextTick]_vars /\ WF_vars(RfidTask \/ RfidTickOn)

(***************************************************************************)
(* The queues under load.  One unknown card is presented again and again,  *)
(* once a second, while firebaseTask drains the queues; the network is up  *)
(* and every upload fails, which does not keep a drain from going on.      *)
(***************************************************************************)
EnvDrain ==
  [Environment({UID_c}, {}, {FALSE}, {1000}, Reliable, {FALSE}, {TRUE},
               FALSE, FALSE, Door0)
     EXCEPT !.inputs = DrainInputs]

InitDrain == Boot(EnvDrain)

NextDrain ==
  \/ RfidExit
  \/ RfidCardRead
  \/ \E ok \in Storage : scanBegin(ok)
  \/ \E ok \in Storage : scanBlack(ok)
  \/ \E ok \in Storage : scanUnknown(ok)
  \/ \E ok \in Storage : scanAddPending(ok)
  \/ RfidCycleEnd
  \/ FbLoop
  \/ FbQueues

SpecDrain == InitDrain /\ [][NextDrain]_vars

(***************************************************************************)
(* StorageManager step by step.  In Spec a StorageManager call is one step *)
(* with an outcome; here each call is its sequence of steps: take the      *)
(* mutex or time out, open the namespace, read or write, close, give the   *)
(* mutex.  The two tasks make calls in any order on one card.              *)
(***************************************************************************)
SmUid == UID_A

\* the calls: the function and the namespace it opens
SmCalls ==
  {<<"isWhitelisted", "whitelist">>, <<"isBlacklisted", "blacklist">>,
   <<"isPending", "pending">>}
    \cup {<<f, l>> : f \in {"getName", "add", "remove"}, l \in Lists}

\* what a call returns when it does not get as far as the namespace
SmMiss(fn) == IF fn = "getName" THEN Unknown ELSE FALSE

\* what the calls of this specification leave alone
smFrame ==
  UNCHANGED <<now, wallMs, relayVars, buzzerVars, exitVars, logVars, pendVars,
              cmdQVars, rfVars, netVars, remoteVars, applied, reboots, bootAt,
              env, exitPin, inputs, logFile>>

\* a task enters a StorageManager function; bool result = false
smCall(t) ==
  /\ sm[t].pc = "idle"
  /\ nvsMutex # "null"
  /\ \E c \in SmCalls :
       sm' = [sm EXCEPT ![t] = [pc |-> "take", fn |-> c[1], list |-> c[2],
                                result |-> SmMiss(c[1])]]
  /\ UNCHANGED <<nvs, nvsMutex>>
  /\ smFrame

\* a take that goes on into the namespace when the wait has run out
xSemaphoreTakeAnyway(t) ==
  /\ sm[t].pc = "take"
  /\ sm' = [sm EXCEPT ![t].pc = "begin"]
  /\ nvsMutex' = IF nvsMutex = "free" THEN t ELSE nvsMutex
  /\ UNCHANGED nvs
  /\ smFrame

\* xSemaphoreTake(nvsMutex, pdMS_TO_TICKS(1000)): the mutex is taken when it
\* is free; when the other task keeps it for the whole wait the call returns
\* what it has
xSemaphoreTake(t) ==
  /\ sm[t].pc = "take"
  /\ IF nvsMutex = "free"
     THEN /\ nvsMutex' = t
          /\ sm' = [sm EXCEPT ![t].pc = "begin"]
     ELSE /\ sm' = [sm EXCEPT ![t].pc = "idle"]
          /\ UNCHANGED nvsMutex
  /\ UNCHANGED nvs
  /\ smFrame

\* prefs.begin(list, readOnly): on failure the body of the if is skipped
prefsBegin(t, ok) ==
  /\ sm[t].pc = "begin"
  /\ sm' = [sm EXCEPT ![t].pc = IF ok THEN "access" ELSE "give"]
  /\ UNCHANGED <<nvs, nvsMutex>>
  /\ smFrame

\* isKey, getString, putString or remove, then prefs.end()
prefsAccess(t) ==
  /\ sm[t].pc = "access"
  /\ LET fn == sm[t].fn
         list == sm[t].list
     IN  /\ nvs' = CASE fn = "add" -> putString(nvs, list, SmUid, Alice)
                     [] fn = "remove" -> removeKey(nvs, list, SmUid)
                     [] OTHER -> nvs
         /\ sm' = [sm EXCEPT
                     ![t].pc = "give",
                     ![t].result =
                       CASE fn = "getName" ->
                              IF isKey(list, SmUid) THEN nvs[list][SmUid]
                              ELSE Unknown
                         [] fn = "remove" -> isKey(list, SmUid)
                         [] fn = "add" -> TRUE
                         [] OTHER -> isKey(list, SmUid)]
  /\ UNCHANGED nvsMutex
  /\ smFrame

\* xSemaphoreGive(nvsMutex); return result
xSemaphoreGive(t) ==
  /\ sm[t].pc = "give"
  /\ nvsMutex' = "free"
  /\ sm' = [sm EXCEPT ![t].pc = "idle"]
  /\ UNCHANGED nvs
  /\ smFrame

\* the steps of a call once it is entered
smRun(t) ==
  \/ xSemaphoreTake(t)
  \/ \E ok \in Storage : prefsBegin(t, ok)
  \/ prefsAccess(t)
  \/ xSemaphoreGive(t)

InitMutex == Init /\ env = EnvStorage

NextMutex == \E t \in Tasks : smCall(t) \/ smRun(t)

\* each task runs on its own core: a call that can take a step takes it
SpecMutex ==
  InitMutex /\ [][NextMutex]_vars /\ \A t \in Tasks : WF_vars(smRun(t))

(***************************************************************************)
(* Properties.  Steps are recognised by the position of the task that      *)
(* takes them.                                                             *)
(***************************************************************************)
\* a step of rfidTask that moves it on
RfidStep == rfPc' # rfPc /\ reboots' = reboots

\* a step of firebaseTask that moves it on
FbStep == fbPc' # fbPc /\ reboots' = reboots

\* the submission markers of the command objects now in the inbox
InboxIds == {inbox[k][1].id : k \in {kk \in Kinds : inbox[kk] # <<>>}}

ApplyStages == {"unlockExec", "addApply", "deleteApply", "moveRemove",
                "moveAdd", "renameApply"}

MirrorStages == {"addMirror", "deleteMirror", "moveMirror", "renameMirror"}

\* the identifier format as the specification words it: hex digits only,
\* even length, 8 to 20 characters
SpecValidUID(uid) ==
  /\ Len(uid) >= 8 /\ Len(uid) <= 20
  /\ Len(uid) % 2 = 0
  /\ \A i \in 1..Len(uid) : uid[i] \in UpperHex \cup LowerHex

\* the set that decides a scan, in the order Allow, Deny, unknown
Classify(store, uid) ==
  IF uid \in DOMAIN store["whitelist"] THEN "whitelist"
  ELSE IF uid \in DOMAIN store["blacklist"] THEN "blacklist"
  ELSE "pending"

\* the three ends of a scan
GrantedStep == rfPc = "granted" /\ rfPc' = "update"

DeniedStep == rfPc = "denied" /\ rfPc' = "update"

PendingStep == rfPc \in {"unknown", "addPending"} /\ rfPc' = "update"

\* the step hands one audit record of this status for the scanned card to
\* the log queue (a full queue counts it as dropped)
EmitsRecord(status) ==
  IF Len(logQueue) < LogQueueCap
  THEN /\ Len(logQueue') = Len(logQueue) + 1
       /\ SubSeq(logQueue', 1, Len(logQueue)) = logQueue
       /\ logQueue'[Len(logQueue')].status = status
       /\ logQueue'[Len(logQueue')].type = "rfid"
       /\ logQueue'[Len(logQueue')].uid = scanUid
       /\ logQueueDrops' = logQueueDrops
  ELSE /\ logQueue' = logQueue
       /\ logQueueDrops' = logQueueDrops + 1

\* the step starts a buzz of d ms
Buzzes(d) ==
  buzzerActive' /\ buzzerStartTime' = now /\ buzzerDuration' = Units(d)

\* the step engages the lock for d ms
LockEngaged(d) ==
  /\ relayActive' /\ relayStartTime' = now /\ relayDuration' = Units(d)
  /\ lastUnlock' = now

\* the step leaves the lock as it was
LockUntouched ==
  UNCHANGED <<relayActive, relayStartTime, relayDuration, lastUnlock>>

\* the step calls activateRelay: a remote unlock is handled, the exit button
\* triggers, or a scan is granted
ActivateCalled ==
  /\ reboots' = reboots
  /\ \/ rfPc = "cmd" /\ rfPc' = "exit"
     \/ rfPc \in {"cmd", "exit"} /\ rfPc' \in {"card"}
          /\ ~exitSensorTriggered /\ exitSensorTriggered'
     \/ GrantedStep

(***************************************************************************)
(* C1: every identifier is in at most one of the three sets of the         *)
(* registry (Allow, Deny, Pending) in every state.                         *)
(***************************************************************************)
C1_DisjointSets ==
  \A uid \in UNION {DOMAIN nvs[l] : l \in Lists} :
    Cardinality({l \in Lists : uid \in DOMAIN nvs[l]}) <= 1

(***************************************************************************)
(* C2: every submitted command is executed at most once, and a command     *)
(* that has been executed is no longer in the inbox, so no later poll,     *)
(* failed request or reboot can execute it again.                          *)
(***************************************************************************)
C2_AtMostOnce ==
  \A id \in DOMAIN applied :
    /\ applied[id] <= 1
    /\ applied[id] = 1 => id \notin InboxIds

\* a command was executed, power was lost afterwards and the inbox has been
\* polled again since, without a second execution
C2_Witness ==
  /\ env.power /\ env.transport = BOOLEAN
  /\ reboots > 0
  /\ lastCommandCheck > bootAt
  /\ \E id \in DOMAIN applied : applied[id] = 1

(***************************************************************************)
(* C3: a valid command is removed from the inbox, then applied, then       *)
(* mirrored.  A handler is at an apply or mirror stage only for a command  *)
(* that is no longer in the inbox, at a mirror stage only after the apply, *)
(* at the first apply stage before it; and when the removal does not       *)
(* happen the step changes neither the registry, nor the command queue,    *)
(* nor the mirror, and the handler goes no further.                        *)
(***************************************************************************)
C3_RemoveApplyMirror ==
  [][/\ fbPc \in ApplyStages \cup MirrorStages => cur.id \notin InboxIds
     /\ fbPc \in MirrorStages => applied[cur.id] = 1
     /\ fbPc \in ApplyStages \ {"moveAdd"} => applied[cur.id] = 0
     /\ (fbPc \in Kinds /\ FbStep)
          => /\ UNCHANGED <<nvs, cmdQVars, fb, applied>>
             /\ inbox'[fbPc] # <<>>
                  => fbPc' \notin ApplyStages \cup MirrorStages
     /\ (fbPc \in ApplyStages /\ FbStep) => UNCHANGED <<inbox, fb>>
     /\ (fbPc \in MirrorStages /\ FbStep)
          => UNCHANGED <<inbox, nvs, cmdQVars, applied>>
    ]_vars

\* while requests can fail: an add has been removed from the inbox and
\* written to the registry, and its mirror write is still to come
C3_Witness ==
  /\ env.transport = BOOLEAN
  /\ fbPc = "addMirror"
  /\ cur.id \notin InboxIds
  /\ applied[cur.id] = 1
  /\ cur.uid \in DOMAIN nvs[cur.list]
  /\ cur.uid \notin DOMAIN fb[cur.list]

\* a command object that has the fields of its kind and fails validation
InvalidCommand(kind, c) ==
  CASE kind = "unlock" ->
         "duration" \in c.has /\ ~(c.duration >= 1 /\ c.duration <= 300)
    [] kind = "move" ->
         /\ {"from", "to", "uid"} \subseteq c.has
         /\ \/ c.list \notin Lists \/ c.to \notin Lists
            \/ ~SpecValidUID(toUpperCase(c.uid))
            \/ c.list = c.to
    [] kind = "rename" ->
         /\ {"list", "uid", "name"} \subseteq c.has
         /\ c.list \notin Lists \/ ~SpecValidUID(toUpperCase(c.uid))
    [] OTHER ->
         /\ {"list", "uid"} \subseteq c.has
         /\ c.list \notin Lists \/ ~SpecValidUID(toUpperCase(c.uid))

(***************************************************************************)
(* C4: a handler that reads a command failing validation changes neither   *)
(* the registry, nor the lock and buzzer, nor the command queue, nor the   *)
(* mirror, and goes no further with it; and while requests to the remote   *)
(* database succeed it writes an error record that names the command and   *)
(* removes the command from the inbox.                                     *)
(***************************************************************************)
C4_InvalidCommandRejected ==
  [][(fbPc \in Kinds /\ FbStep /\ inbox[fbPc] # <<>>
        /\ InvalidCommand(fbPc, inbox[fbPc][1]))
       => /\ UNCHANGED <<nvs, relayVars, buzzerVars, cmdQVars, fb, applied>>
          /\ fbPc' \notin ApplyStages \cup MirrorStages
          /\ (wifi /\ env.transport = {TRUE})
               => /\ inbox'[fbPc] = <<>>
                  /\ getEpochTime \in DOMAIN commandErrors'
                  /\ commandErrors'[getEpochTime].command = fbPc
    ]_vars

\* an invalid move has been answered with an error record and removed, and
\* the registry is what it was at boot
C4_Witness ==
  /\ env = EnvInvalid
  /\ inbox["move"] = <<>>
  /\ \E k \in DOMAIN commandErrors : commandErrors[k].command = "move"
  /\ nvs = Door0 /\ fb = Door0
  /\ commandQueue = <<>> /\ ~relayActive

(***************************************************************************)
(* C5: a scan reaches the granted branch only from the whitelist lookup of *)
(* that scan, and only when the card is in the whitelist at that lookup;   *)
(* no other step of a scan touches the lock or emits a granted record.  A  *)
(* lookup that cannot take the mutex answers "not a member".               *)
(***************************************************************************)
C5_GrantNeedsAllowLookup ==
  [][/\ (rfPc' = "granted" /\ rfPc # "granted")
          => /\ rfPc = "scan"
             /\ scanUid' = scanUid
             /\ scanUid \in DOMAIN nvs["whitelist"]
     /\ (rfPc \in {"scan", "black", "denied", "unknown", "addPending"}
          /\ RfidStep)
          => /\ UNCHANGED relayVars
             /\ \/ Len(logQueue') <= Len(logQueue)
                \/ logQueue'[Len(logQueue')].status # "granted"
    ]_vars

\* the whitelist lookup of a whitelisted card failed: the scan has gone on to
\* the blacklist lookup
C5_Witness ==
  /\ env.storage = BOOLEAN
  /\ rfPc = "black"
  /\ scanUid \in DOMAIN nvs["whitelist"]
  /\ ~relayActive

(***************************************************************************)
(* C6: a call of activateRelay is rejected, leaving relay state, deadline  *)
(* and lastUnlock unchanged, exactly when an activation has been accepted  *)
(* less than 3000 ms before; otherwise it is accepted.                     *)
(***************************************************************************)
C6_CooldownSinceLastAccepted ==
  [][ActivateCalled
       => IF unlockCount > 0
             /\ Sub32(now, lastUnlock) < Units(UNLOCK_COOLDOWN_MS)
          THEN LockUntouched
          ELSE relayActive' /\ relayStartTime' = now /\ lastUnlock' = now
    ]_vars

\* what a scan does in each of its three branches, given what the granted
\* branch does to the lock
ScanBranches(lock) ==
  /\ (rfPc = "scan" /\ RfidStep /\ SpecValidUID(scanUid))
       => /\ UNCHANGED <<relayVars, buzzerVars, logVars>>
          /\ rfPc' \in {"granted", "black"}
          /\ env.storage = {TRUE}
               => (rfPc' = "granted" <=> scanUid \in DOMAIN nvs["whitelist"])
  /\ (rfPc = "black" /\ RfidStep)
       => /\ UNCHANGED <<relayVars, buzzerVars, logVars>>
          /\ rfPc' \in {"denied", "unknown"}
          /\ env.storage = {TRUE}
               => (rfPc' = "denied" <=> scanUid \in DOMAIN nvs["blacklist"])
  /\ (rfPc = "unknown" /\ rfPc' = "addPending")
       => UNCHANGED <<relayVars, buzzerVars, logVars>>
  /\ GrantedStep
       => lock /\ Buzzes(100) /\ EmitsRecord("granted")
  /\ DeniedStep
       => LockUntouched /\ Buzzes(2000) /\ EmitsRecord("denied")
  /\ PendingStep
       => LockUntouched /\ Buzzes(500) /\ EmitsRecord("pending")

(***************************************************************************)
(* C7, as amended: a scan runs exactly one branch, tried in the order      *)
(* Allow, Deny, unknown.  A card in Allow requests the lock for 3000 ms    *)
(* through activateRelay (engaged unless the cooldown rejects the          *)
(* request), buzzes 100 ms and emits a granted record; a card in Deny      *)
(* buzzes 2000 ms and emits a denied record; any other card buzzes 500 ms  *)
(* and emits a pending record.  A card in both Allow and Deny is granted.  *)
(***************************************************************************)
C7_ScanBranches ==
  [][ScanBranches(IF cooldownActive
                  THEN LockUntouched
                  ELSE LockEngaged(RELAY_DEFAULT_DURATION))]_vars

\* C7 as the specification words it: the granted branch engages the lock
\* for 3000 ms
C7_GrantedEngagesLock ==
  [][ScanBranches(LockEngaged(RELAY_DEFAULT_DURATION))]_vars

\* a card that is in Allow and in Deny has been granted
C7_Witness ==
  \E i \in 1..Len(logQueue) :
    /\ logQueue[i].status = "granted" /\ logQueue[i].type = "rfid"
    /\ logQueue[i].uid \in DOMAIN nvs["whitelist"]
    /\ logQueue[i].uid \in DOMAIN nvs["blacklist"]

(***************************************************************************)
(* C8: when an Add(set, id, label) has been processed without failure the  *)
(* id, in upper case, is classified by that set and stored with that       *)
(* label; and a scan classifies a card by the registry, in the order       *)
(* Allow, Deny, unknown, and records the stored label.                     *)
(***************************************************************************)
C8_AddThenScan ==
  [][/\ (fbPc = "addApply" /\ fbPc' = "addMirror" /\ reboots' = reboots)
          => /\ \A i \in 1..Len(cur.uid) : cur.uid[i] \notin LowerHex
             /\ cur.uid \in DOMAIN nvs'[cur.list]
             /\ nvs'[cur.list][cur.uid] = cur.name
             /\ Classify(nvs', cur.uid) = cur.list
     /\ (env.storage = {TRUE} /\ rfPc = "scan" /\ RfidStep
           /\ SpecValidUID(scanUid))
          => (rfPc' = "granted" <=> Classify(nvs, scanUid) = "whitelist")
     /\ (env.storage = {TRUE} /\ rfPc = "black" /\ RfidStep)
          => (rfPc' = "denied" <=> scanUid \in DOMAIN nvs["blacklist"])
     /\ (env.storage = {TRUE} /\ GrantedStep
           /\ scanUid \in DOMAIN nvs["whitelist"]
           /\ Len(logQueue) < LogQueueCap)
          => logQueue'[Len(logQueue')].name = nvs["whitelist"][scanUid]
    ]_vars

(***************************************************************************)
(* C9: handleRFIDScan goes on to the registry exactly for an identifier    *)
(* made of hex digits only, of even length, 8 to 20 characters long.  For  *)
(* any other identifier the scan ends at once: no lookup, no change of the *)
(* registry, no lock, no audit record, no pending notice, only a buzz of   *)
(* 200 ms.                                                                 *)
(***************************************************************************)
C9_InvalidScanOnlyBuzzes ==
  [][(rfPc = "scan" /\ RfidStep)
       => /\ isValidUID(scanUid) <=> SpecValidUID(scanUid)
          /\ IF SpecValidUID(scanUid)
             THEN rfPc' \in {"granted", "black"}
             ELSE /\ rfPc' = "update"
                  /\ Buzzes(200)
                  /\ UNCHANGED <<nvs, relayVars, logVars, pendVars, cmdQVars>>
    ]_vars

\* an identifier that fails the format has been scanned: the buzzer runs for
\* 200 ms and nothing else has happened
C9_Witness ==
  /\ env = EnvCards
  /\ rfPc = "update"
  /\ buzzerActive /\ buzzerDuration = Units(200) /\ buzzerStartTime = now
  /\ nvs = Door0 /\ logQueue = <<>> /\ pendingQueue = <<>> /\ ~relayActive

(***************************************************************************)
(* C10: a scan of an unknown card that is already in Pending emits no      *)
(* pending notice; only the scan that inserts the card into Pending does.  *)
(***************************************************************************)
C10_NoticeOnlyOnInsert ==
  [][(rfPc = "unknown" /\ rfPc' = "update"
        /\ scanUid \in DOMAIN nvs["pending"])
       => UNCHANGED pendVars
    ]_vars

\* the command being handled was sent before, as the only command the remote
\* side sends, and that earlier copy has been executed
SentBefore ==
  /\ Cardinality(env.cmds) = 1
  /\ \E id \in DOMAIN applied : id # cur.id /\ applied[id] = 1

(***************************************************************************)
(* C11: a validated Delete(set, id) that is applied a second time, when id *)
(* is no longer in the set, writes no error record, leaves the registry    *)
(* as it is and does not go on to a deletion on the mirror.                *)
(***************************************************************************)
C11_SecondDeleteSilent ==
  [][(fbPc = "deleteApply" /\ FbStep /\ SentBefore
        /\ cur.uid \notin DOMAIN nvs[cur.list])
       => /\ commandErrors' = commandErrors
          /\ nvs' = nvs
          /\ fbPc' # "deleteMirror"
    ]_vars

\* a step that is one call of handleExitSensor
ExitRead == rfPc \in {"cmd", "exit"} /\ rfPc' = "card" /\ reboots' = reboots

\* the step hands one audit record of the exit button to the log queue (a
\* full queue counts it as dropped)
EmitsExitRecord ==
  IF Len(logQueue) < LogQueueCap
  THEN /\ Len(logQueue') = Len(logQueue) + 1
       /\ SubSeq(logQueue', 1, Len(logQueue)) = logQueue
       /\ logQueue'[Len(logQueue')] =
            [uid |-> EXIT_SENSOR, name |-> ExitButton, status |-> "granted",
             type |-> "exit"]
       /\ logQueueDrops' = logQueueDrops
  ELSE /\ logQueue' = logQueue
       /\ logQueueDrops' = logQueueDrops + 1

\* what the polls of the exit signal do, given what the first poll that
\* reads it high after a low does
ExitPolls(first) ==
  ExitRead
    => /\ (exitPin /\ exitPin')
            => UNCHANGED <<relayVars, buzzerVars, logVars>>
       /\ (~exitPin /\ exitPin') => first
       /\ ~exitPin' => UNCHANGED <<relayVars, buzzerVars, logVars>>

(***************************************************************************)
(* C12, as amended: while the exit signal is held high the monitor acts at *)
(* most once, on the first poll that reads it high.  With the latch clear  *)
(* that poll requests the lock for 3000 ms through activateRelay (engaged  *)
(* unless the cooldown rejects the request), buzzes 100 ms and emits one   *)
(* audit record EXIT_SENSOR; with the latch still set it does nothing.     *)
(* Every later poll that reads the signal high does nothing.               *)
(***************************************************************************)
C12_HeldHighActsOnce ==
  [][ExitPolls(IF exitSensorTriggered
               THEN UNCHANGED <<relayVars, buzzerVars, logVars>>
               ELSE /\ IF cooldownActive
                       THEN LockUntouched
                       ELSE LockEngaged(RELAY_DEFAULT_DURATION)
                    /\ Buzzes(100)
                    /\ EmitsExitRecord)]_vars

\* C12 as the specification words it: the first poll that reads the signal
\* high engages the lock and emits one record, the later ones do nothing
C12_HeldHighOneActuation ==
  [][ExitPolls(/\ LockEngaged(RELAY_DEFAULT_DURATION)
               /\ EmitsExitRecord)]_vars

\* the signal went high once and has been high for 5 seconds: one actuation,
\* long over, and one audit record
C12_Witness ==
  /\ exitPin /\ lastExitSensorState /\ inputs = 1
  /\ Sub32(now, lastExitTriggerTime) >= Units(5000)
  /\ unlockCount = 1 /\ ~relayActive
  /\ Len(logQueue) = 1 /\ logQueue[1].uid = EXIT_SENSOR
  /\ logQueueDrops = 0

(***************************************************************************)
(* C13: a command object in the inbox is consumed by the poll that reads   *)
(* it while the remote database answers: it is removed from the inbox, and *)
(* either an error record naming it is written (invalid, missing or        *)
(* malformed fields) or the handler goes on to apply it (valid).  So no    *)
(* command stays in the inbox from one poll to the next.                   *)
(***************************************************************************)
C13_CommandConsumed ==
  [][(fbPc \in Kinds /\ FbStep /\ inbox[fbPc] # <<>>
        /\ wifi /\ env.transport = {TRUE})
       => /\ inbox'[fbPc] = <<>>
          /\ \/ fbPc' \in ApplyStages
             \/ /\ getEpochTime \in DOMAIN commandErrors'
                /\ commandErrors'[getEpochTime].command = fbPc
    ]_vars

\* the exit button triggers in this step
ExitTrigger == ExitRead /\ ~exitSensorTriggered /\ exitSensorTriggered'

\* the steps that send to the log queue, to the pending queue, to the
\* command queue
LogSendStep == GrantedStep \/ DeniedStep \/ PendingStep \/ ExitTrigger

PendingSendStep == PendingStep

CommandSendStep == fbPc = "unlockExec" /\ FbStep

\* one send to a queue of capacity cap: q, drops before and q2, drops2 after
SendOutcome(q, drops, q2, drops2, cap) ==
  IF Len(q) >= cap
  THEN q2 = q /\ drops2 = drops + 1
  ELSE /\ Len(q2) = Len(q) + 1 /\ SubSeq(q2, 1, Len(q)) = q
       /\ drops2 = drops

\* a task that is about to send can take its step whatever the queue holds
NeverBlocked ==
  /\ rfPc \in {"granted", "denied", "unknown", "addPending"}
       => ENABLED RfidScan
  /\ fbPc = "unlockExec" => ENABLED unlockExec

(***************************************************************************)
(* C14: no queue ever holds more than its capacity.  A send to a full      *)
(* queue leaves the queue as it is and adds one to its drop counter, a     *)
(* send to a queue with room appends the item and leaves the counter; the  *)
(* sending task goes on either way and is never blocked; and a drop        *)
(* counter changes in no other step.                                       *)
(***************************************************************************)
C14_FullQueueDrops ==
  /\ [](NeverBlocked)
  /\ [][/\ Len(logQueue') <= LogQueueCap
        /\ Len(pendingQueue') <= PendingQueueCap
        /\ Len(commandQueue') <= CommandQueueCap
        /\ LogSendStep
             => /\ SendOutcome(logQueue, logQueueDrops, logQueue',
                               logQueueDrops', LogQueueCap)
                /\ rfPc' \in {"update", "card"}
        /\ PendingSendStep
             => /\ SendOutcome(pendingQueue, pendingQueueDrops, pendingQueue',
                               pendingQueueDrops', PendingQueueCap)
                /\ rfPc' = "update"
        /\ CommandSendStep
             => /\ SendOutcome(commandQueue, commandQueueDrops,
                               commandQueue', commandQueueDrops',
                               CommandQueueCap)
                /\ fbPc' \notin {"unlock", "unlockExec"}
        /\ (logQueueDrops' # logQueueDrops /\ reboots' = reboots)
             => LogSendStep
        /\ (pendingQueueDrops' # pendingQueueDrops /\ reboots' = reboots)
             => PendingSendStep
        /\ (commandQueueDrops' # commandQueueDrops /\ reboots' = reboots)
             => CommandSendStep
       ]_vars

\* the log queue and the pending queue are full, each has dropped an item,
\* and rfidTask has gone on to the end of its cycle
C14_Witness ==
  /\ Len(logQueue) = LogQueueCap /\ logQueueDrops > 0
  /\ Len(pendingQueue) = PendingQueueCap /\ pendingQueueDrops > 0
  /\ rfPc = "update"

\* the command queue is full and has dropped an unlock
C14_CommandDropped ==
  Len(commandQueue) = CommandQueueCap /\ commandQueueDrops > 0

(***************************************************************************)
(* C15: every scan decision and every exit actuation made while the        *)
(* network is down appends a record to the local log file.                 *)
(***************************************************************************)
C15_LocalRecordOffline ==
  [][(LogSendStep /\ ~wifi)
       => /\ Len(logFile') = Len(logFile) + 1
          /\ logFile'[Len(logFile')].status
               \in {"granted", "denied", "pending"}
    ]_vars

\* a remote management command takes effect in this step: the first registry
\* write of an add, delete, move or rename, or the unlock handed to
\* handleCommand
ManagementStep ==
  \/ fbPc \in {"addApply", "deleteApply", "moveRemove", "renameApply"}
       /\ FbStep
  \/ rfPc = "cmd" /\ rfPc' = "exit" /\ reboots' = reboots

\* the step hands exactly one record to the audit log
OneRecord ==
  SendOutcome(logQueue, logQueueDrops, logQueue', logQueueDrops', LogQueueCap)

(***************************************************************************)
(* C16: every scan decision, every exit trigger and every remote           *)
(* management command that takes effect hands exactly one record to the    *)
(* audit log, and no other step hands one.                                 *)
(***************************************************************************)
C16_OneRecordPerAction ==
  [][/\ LogSendStep => OneRecord
     /\ ManagementStep => OneRecord
     /\ (~LogSendStep /\ ~ManagementStep /\ reboots' = reboots)
          => /\ Len(logQueue') <= Len(logQueue)
             /\ logQueueDrops' = logQueueDrops
    ]_vars

\* the step changes nothing in the registry but the membership or the label
\* of uid in list
OnlyChanges(list, uid) ==
  /\ \A l \in Lists \ {list} : nvs'[l] = nvs[l]
  /\ \A k \in (DOMAIN nvs[list] \cup DOMAIN nvs'[list]) \ {uid} :
       /\ k \in DOMAIN nvs[list] /\ k \in DOMAIN nvs'[list]
       /\ nvs'[list][k] = nvs[list][k]

(***************************************************************************)
(* C17: the registry changes only in the pending insert of a scan and in   *)
(* the registry writes of a validated remote command, and each such step   *)
(* changes the membership or label of the one identifier it names, in the  *)
(* one set it names, and nothing else; a reboot leaves the registry as it  *)
(* is.                                                                     *)
(***************************************************************************)
C17_RegistryFrame ==
  [][nvs' # nvs
       => /\ reboots' = reboots
          /\ \/ /\ rfPc = "addPending" /\ RfidStep /\ fbPc' = fbPc
                /\ SpecValidUID(scanUid)
                /\ OnlyChanges("pending", scanUid)
             \/ /\ fbPc \in {"addApply", "renameApply", "deleteApply",
                              "moveRemove"}
                /\ FbStep /\ rfPc' = rfPc
                /\ cur.list \in Lists /\ SpecValidUID(cur.uid)
                /\ OnlyChanges(cur.list, cur.uid)
             \/ /\ fbPc = "moveAdd" /\ FbStep /\ rfPc' = rfPc
                /\ cur.to \in Lists /\ SpecValidUID(cur.uid)
                /\ OnlyChanges(cur.to, cur.uid)
    ]_vars

\* a delete has removed one of two allowed cards: the other card and the
\* other sets are as they were
C17_Witness ==
  /\ env = EnvDelete
  /\ nvs = removeKey(Door2, "whitelist", UID_A)
  /\ UID_C \in DOMAIN nvs["whitelist"]
  /\ \E id \in DOMAIN applied : applied[id] = 1

\* a task is between its take and its give exactly when it holds the mutex
MutexHeldInside ==
  /\ nvsMutex \in {"free"} \cup Tasks
  /\ \A t \in Tasks : sm[t].pc \in {"begin", "access", "give"} <=> nvsMutex = t

(***************************************************************************)
(* C18: a task is inside a StorageManager call, between take and give,     *)
(* exactly when it holds nvsMutex, so at most one task is inside at any    *)
(* time and every path out of a call has given the mutex back; the         *)
(* registry is read and written only by the task holding the mutex; a call *)
(* whose wait for the mutex runs out returns a miss (false, "Unknown")     *)
(* with the registry and the mutex untouched; and every call returns.      *)
(***************************************************************************)
C18_MutexDiscipline ==
  /\ [](MutexHeldInside)
  /\ [][/\ nvs' # nvs
             => \E t \in Tasks : /\ nvsMutex = t
                                 /\ sm[t].pc = "access" /\ sm'[t].pc = "give"
        /\ \A t \in Tasks :
             (sm[t].pc = "take" /\ sm'[t].pc = "idle")
               => /\ nvsMutex \in Tasks \ {t}
                  /\ nvsMutex' = nvsMutex /\ nvs' = nvs
                  /\ sm'[t].result = SmMiss(sm[t].fn)
       ]_vars
  /\ \A t \in Tasks : (sm[t].pc # "idle") ~> (sm[t].pc = "idle")

\* firebaseTask is inside a write with the mutex while rfidTask waits for it
\* in a lookup
C18_Witness ==
  /\ nvsMutex = "fb"
  /\ sm["fb"].pc = "access" /\ sm["fb"].fn = "add"
  /\ sm["rfid"].pc = "take" /\ sm["rfid"].fn = "isWhitelisted"

\* what the decisions and actuations of rfidTask depend on and consist of
accessVars == <<nvs, relayVars, buzzerVars, exitVars, scanUid>>

\* rfidTask starts to serve cards and the exit button at the same time after
\* power-up whether or not the network is there
StartsAlike == bootAt = Units(setupMillis(env.mutex, TRUE))

\* a step of firebaseTask or of the network that is not the effect of a
\* remote command
NetworkStep ==
  /\ rfPc' = rfPc /\ now' = now /\ reboots' = reboots
  /\ fbPc \notin ApplyStages

(***************************************************************************)
(* C19: what rfidTask does with a sequence of cards and exit signals does  *)
(* not depend on the network.  It starts to serve them at the same time    *)
(* after power-up with and without the network; its steps read and write   *)
(* no state of the network side other than the outbound queues and their   *)
(* drop counters; and no step of the network side, the effect of a remote  *)
(* command apart, changes the registry, the lock, the buzzer or the exit   *)
(* monitor.                                                                *)
(***************************************************************************)
C19_ConnectivityBlind ==
  /\ [](StartsAlike)
  /\ [][/\ RfidStep
             => UNCHANGED <<wifi, firebaseReady, lastCommandCheck,
                            lastStatusUpdate, fbPc, cur, processed, drained,
                            inbox,
                            fb, commandErrors, fbLogs, deviceStatus>>
        /\ NetworkStep => UNCHANGED accessVars
       ]_vars

(***************************************************************************)
(* C20: when the mutex could not be created neither task is ever started:  *)
(* in every later state no card has been read or classified, no command    *)
(* has been read, reported or executed, nothing has been queued, registry  *)
(* and mirror are as they were, and lock and buzzer have never been        *)
(* driven.                                                                 *)
(***************************************************************************)
C20_HaltsWithoutMutex ==
  nvsMutex = "null"
    => /\ rfPc = "halt" /\ fbPc = "halt"
       /\ scanUid = NoUid /\ cur = NoCur
       /\ ~relayActive /\ unlockCount = 0 /\ ~buzzerActive
       /\ logQueue = <<>> /\ pendingQueue = <<>> /\ commandQueue = <<>>
       /\ nvs = env.nvs0 /\ fb = env.nvs0
       /\ DOMAIN commandErrors = {} /\ DOMAIN fbLogs = {}
       /\ \A id \in DOMAIN applied : applied[id] = 0
       /\ ~firebaseReady /\ ~deviceStatus.online

\* five seconds after a start without mutex: an unlock command sits in the
\* inbox unread and the lock has not moved
C20_Witness ==
  /\ nvsMutex = "null"
  /\ Sub32(now, bootAt) >= Units(5000)
  /\ inbox["unlock"] # <<>>
  /\ ~relayActive /\ rfPc = "halt"

\* the queue-drop counters a status record shows, added up
ReportedDrops(st) ==
  (IF "logQueueDrops" \in DOMAIN st THEN st.logQueueDrops ELSE 0)
    + (IF "pendingQueueDrops" \in DOMAIN st THEN st.pendingQueueDrops ELSE 0)
    + (IF "commandQueueDrops" \in DOMAIN st THEN st.commandQueueDrops ELSE 0)

\* a step of firebaseTask in which updateDeviceStatus writes /status: the
\* record changes, or no request of this run can fail
StatusWritten ==
  /\ fbPc = "loop" /\ reboots' = reboots
  /\ wifi /\ firebaseReady' /\ ~firebaseReady
  /\ deviceStatus' # deviceStatus \/ env.transport = {TRUE}

(***************************************************************************)
(* C21: every queue-drop counter that can be incremented (audit-log drops, *)
(* pending-notice drops, unlock-command drops) is in the device-health     *)
(* report: a report, when it is written, accounts for every item dropped   *)
(* so far.                                                                 *)
(***************************************************************************)
C21_DropsReported ==
  [][StatusWritten
       => ReportedDrops(deviceStatus')
            = logQueueDrops + pendingQueueDrops + commandQueueDrops
    ]_vars

\* the registry holds uid in the list under this name
Holds(store, list, uid, name) ==
  uid \in DOMAIN store[list] /\ store[list][uid] = name

\* the registry write of a handler's apply stage has not achieved what the
\* command asked for: the StorageManager call returned false
NotAchieved ==
  CASE fbPc \in {"addApply", "renameApply"} ->
         ~Holds(nvs', cur.list, cur.uid, cur.name)
    [] fbPc \in {"deleteApply", "moveRemove"} ->
         cur.uid \in DOMAIN nvs'[cur.list]
    [] fbPc = "moveAdd" -> ~Holds(nvs', cur.to, cur.uid, cur.name)
    [] OTHER -> FALSE

(***************************************************************************)
(* C22: when the registry write of an Add, Delete, Move or Rename fails,   *)
(* the handler does not go on to the mirror: neither after the failed      *)
(* write itself, nor, for a Move, after an add that follows a remove that  *)
(* left the identifier in the source set.                                  *)
(***************************************************************************)
C22_FailedWriteNotMirrored ==
  [][/\ (fbPc \in {"addApply", "deleteApply", "moveAdd", "renameApply"}
           /\ FbStep /\ NotAchieved)
          => fbPc' \notin MirrorStages
     /\ (fbPc = "moveAdd" /\ FbStep /\ cur.uid \in DOMAIN nvs[cur.list])
          => fbPc' \notin MirrorStages
    ]_vars

(***************************************************************************)
(* C23: a Rename changes only the label of an identifier already in the    *)
(* named set, and a Move relocates only an identifier that is in its       *)
(* source set.  A Rename of an identifier that is not in the set leaves    *)
(* the set without it, and a Move that finds the identifier absent from    *)
(* the source set does not go on to add it to the destination set.         *)
(***************************************************************************)
C23_RenameMoveCreateNothing ==
  [][/\ (fbPc = "renameApply" /\ FbStep
           /\ cur.uid \notin DOMAIN nvs[cur.list])
          => cur.uid \notin DOMAIN nvs'[cur.list]
     /\ (fbPc = "moveRemove" /\ FbStep
           /\ cur.uid \notin DOMAIN nvs[cur.list])
          => fbPc' # "moveAdd"
    ]_vars

\* the label a Move is to give the identifier: the sanitized label of the
\* command when it has one, else the label the identifier has in the source
MoveLabel(c) ==
  IF "name" \in c.has THEN sanitizeName(c.name)
  ELSE nvs[c.list][toUpperCase(c.uid)]

(***************************************************************************)
(* C24: a valid Move removes the identifier from the source set before it  *)
(* adds it to the destination set: the add of a Move never leaves the      *)
(* identifier in both sets.  When no registry operation can fail, the Move *)
(* carries the command's sanitized label, or the label the identifier had  *)
(* in the source set, and after its add the identifier is absent from the  *)
(* source set and present in the destination set under that label.         *)
(***************************************************************************)
C24_MoveRemovesThenAdds ==
  [][/\ (fbPc = "moveAdd" /\ FbStep)
          => ~(/\ cur.uid \in DOMAIN nvs'[cur.list]
               /\ cur.uid \in DOMAIN nvs'[cur.to])
     /\ (fbPc = "move" /\ fbPc' = "moveRemove" /\ env.storage = {TRUE}
           /\ toUpperCase(inbox["move"][1].uid)
                \in DOMAIN nvs[inbox["move"][1].list])
          => cur'.name = MoveLabel(inbox["move"][1])
     /\ (fbPc = "moveAdd" /\ FbStep /\ env.storage = {TRUE})
          => /\ cur.uid \notin DOMAIN nvs'[cur.list]
             /\ Holds(nvs', cur.to, cur.uid, cur.name)
    ]_vars

\* a step of rfidTask that runs AccessController::update
Tick == rfPc \in {"card", "update"} /\ rfPc' = "cmd" /\ reboots' = reboots

\* the lock, or the buzzer, is on and millis() has reached its deadline
RelayDue == relayActive /\ Sub32(now, relayStartTime) >= relayDuration

BuzzerDue == buzzerActive /\ Sub32(now, buzzerStartTime) >= buzzerDuration

(***************************************************************************)
(* C25: a tick that runs when an output is on and the time has reached its *)
(* deadline switches the output off; so the lock is never on after a tick  *)
(* that ran at or past its deadline, and, rfidTask running for ever, the   *)
(* lock once on is eventually off again (so is the buzzer).                *)
(***************************************************************************)
C25_TickReleases ==
  /\ [][Tick => /\ RelayDue => ~relayActive'
                /\ BuzzerDue => ~buzzerActive']_vars
  /\ relayActive ~> ~relayActive
  /\ buzzerActive ~> ~buzzerActive

\* the lock was engaged and a tick that ran exactly at its deadline has
\* released it: the clock has since moved on by one cycle of 3000 ms
C25_Witness ==
  /\ env \in {EnvTickLocal, EnvTickRemote}
  /\ unlockCount > 0 /\ ~relayActive /\ rfPc = "cmd"
  /\ Sub32(now, relayStartTime)
       = relayDuration + Units(RELAY_DEFAULT_DURATION)

\* the place of a stage of firebaseTask in the order of one pass: the five
\* command kinds in the order of checkCommands, then the queues
Rank(stage) ==
  CASE stage = "loop" -> 0
    [] stage \in {"unlock", "unlockExec"} -> 1
    [] stage \in {"add", "addApply", "addMirror"} -> 2
    [] stage \in {"delete", "deleteApply", "deleteMirror"} -> 3
    [] stage \in {"move", "moveRemove", "moveAdd", "moveMirror"} -> 4
    [] stage \in {"rename", "renameApply", "renameMirror"} -> 5
    [] OTHER -> 6

\* a step of firebaseTask in which checkCommands starts a poll
PollStart ==
  /\ fbPc = "loop" /\ reboots' = reboots
  /\ Rank(fbPc') \in 1..5 \/ lastCommandCheck' # lastCommandCheck

(***************************************************************************)
(* C26: a poll of the commands starts only while the network is up and at  *)
(* least 2000 ms after the previous poll; within a poll the command kinds  *)
(* are handled in the order Unlock, Add, Delete, Move, Rename, each at     *)
(* most once: firebaseTask never goes back to the handler of a kind it has *)
(* reached or passed, and reaches a handler from nowhere but a poll.       *)
(***************************************************************************)
C26_PollIntervalAndOrder ==
  [][/\ PollStart
          => /\ wifi
             /\ Sub32(now, lastCommandCheck) >= Units(COMMAND_CHECK_INTERVAL)
             /\ lastCommandCheck' = now
     /\ (FbStep /\ fbPc' # "loop")
          => \/ Rank(fbPc') > Rank(fbPc)
             \/ Rank(fbPc') = Rank(fbPc) /\ fbPc' \notin Kinds
    ]_vars

\* a poll that is not the first one after boot handles a command, after a
\* command of an earlier submission has been executed
C26_Witness ==
  /\ fbPc \in ApplyStages
  /\ Sub32(lastCommandCheck, bootAt)
       >= Units(COMMAND_CHECK_INTERVAL + UNLOCK_COOLDOWN_MS)
  /\ \E id \in DOMAIN applied : id # cur.id /\ applied[id] = 1

\* the duration of an Unlock as the specification words it: 1 to 300 seconds
SpecValidDuration(d) == d >= 1 /\ d <= 300

\* handleUnlockCommand runs on a command object that has its duration
UnlockPolled ==
  /\ fbPc = "unlock" /\ FbStep
  /\ inbox["unlock"] # <<>>
  /\ "duration" \in inbox["unlock"][1].has

(***************************************************************************)
(* C27: a remote Unlock is valid iff its duration is 1 to 300 seconds.     *)
(* Only a valid Unlock goes on to be executed, and a valid one that has    *)
(* been removed from the inbox always does; its execution puts exactly one *)
(* unlock signal of duration * 1000 ms on the command queue, or counts one *)
(* drop when the queue is full.  rfidTask takes at most one signal per     *)
(* cycle, at the start of it, and then requests the lock for the signal's  *)
(* duration (the cooldown may reject the request) and buzzes 100 ms.       *)
(***************************************************************************)
C27_UnlockCommand ==
  [][/\ \A i \in 1..Len(commandQueue) :
          /\ commandQueue[i].type = "UNLOCK"
          /\ \E d \in 1..300 : commandQueue[i].duration = d * 1000
     /\ UnlockPolled
          => LET d == inbox["unlock"][1].duration
             IN  /\ fbPc' = "unlockExec"
                      => /\ SpecValidDuration(d)
                         /\ inbox'["unlock"] = <<>>
                         /\ cur'.duration = d
                 /\ (SpecValidDuration(d) /\ inbox'["unlock"] = <<>>)
                      => fbPc' = "unlockExec"
                 /\ isValidDuration(d) <=> SpecValidDuration(d)
                 /\ UNCHANGED cmdQVars
     /\ (fbPc = "unlockExec" /\ FbStep)
          => /\ SendOutcome(commandQueue, commandQueueDrops, commandQueue',
                            commandQueueDrops', CommandQueueCap)
             /\ Len(commandQueue') > Len(commandQueue)
                  => commandQueue'[Len(commandQueue')]
                       = [type |-> "UNLOCK", duration |-> cur.duration * 1000]
     /\ (RfidStep /\ rfPc = "cmd" /\ rfPc' = "exit")
          => /\ commandQueue # <<>>
             /\ commandQueue' = Tail(commandQueue)
             /\ IF cooldownActive THEN LockUntouched
                ELSE LockEngaged(Head(commandQueue).duration)
             /\ Buzzes(100)
     /\ (RfidStep /\ ~(rfPc = "cmd" /\ rfPc' = "exit"))
          => UNCHANGED commandQueue
    ]_vars

\* a remote unlock of 300 s has been taken from the command queue: the lock
\* is engaged for 300000 ms and the buzzer runs for 100 ms
C27_Witness ==
  /\ rfPc = "exit" /\ commandQueue = <<>>
  /\ relayActive /\ relayStartTime = now
  /\ relayDuration = Units(300 * 1000)
  /\ buzzerActive /\ buzzerDuration = Units(100)

(***************************************************************************)
(* C28: in one pass of firebaseTask the number of entries taken from the   *)
(* log queue and the number taken from the pending queue are each at most  *)
(* the batch limit (5), however many entries are queued or are added while *)
(* the drain runs.                                                         *)
(***************************************************************************)
C28_DrainsBounded == processed <= MAX_BATCH /\ drained <= MAX_BATCH

\* a call of handleExitSensor that accepts a trigger: it hands an audit
\* record to the log queue
AcceptedExit == ExitRead /\ logVars' # logVars

(***************************************************************************)
(* C29: any two exit triggers that are accepted are at least 500 ms apart, *)
(* whatever the signal does.  An accepted trigger comes at least 500 ms    *)
(* after the time kept as that of the last trigger and becomes that time;  *)
(* a read of the pin that accepts no trigger requests no actuation and     *)
(* starts no buzz; and nothing else changes the time kept.                 *)
(***************************************************************************)
C29_TriggersApart ==
  [][/\ AcceptedExit
          => /\ Sub32(now, lastExitTriggerTime) >= Units(EXIT_DEBOUNCE_MS)
             /\ lastExitTriggerTime' = now
             /\ EmitsExitRecord
     /\ (ExitRead /\ ~AcceptedExit)
          => UNCHANGED <<lastExitTriggerTime, relayVars, buzzerVars>>
     /\ (~ExitRead /\ reboots' = reboots)
          => UNCHANGED <<lastExitTriggerTime, lastExitSensorState,
                         exitSensorTriggered>>
    ]_vars

\* the button bounces: a second trigger has just been accepted, and both
\* audit records are on the log queue
C29_Witness ==
  /\ env = EnvBounce
  /\ rfPc = "card" /\ lastExitTriggerTime = now
  /\ Len(logQueue) = 2
  /\ \A i \in 1..2 : logQueue[i].type = "exit"

(***************************************************************************)
(* C30: the exit latch is set only by an accepted trigger; once set, the   *)
(* running program clears it only in a read of the pin that finds it low   *)
(* more than 500 ms after the trigger; and a read of the pin taken while   *)
(* the latch is set accepts no trigger: it requests no actuation, starts   *)
(* no buzz, queues no record and leaves the time of the trigger alone.     *)
(***************************************************************************)
C30_LatchClearedLowAndLate ==
  [][/\ (~exitSensorTriggered /\ exitSensorTriggered') => AcceptedExit
     /\ (exitSensorTriggered /\ ~exitSensorTriggered' /\ reboots' = reboots)
          => /\ ExitRead
             /\ ~exitPin'
             /\ Sub32(now, lastExitTriggerTime) > Units(EXIT_DEBOUNCE_MS)
     /\ (exitSensorTriggered /\ ExitRead)
          => /\ ~AcceptedExit
             /\ UNCHANGED <<relayVars, buzzerVars, logVars,
                            lastExitTriggerTime>>
    ]_vars

\* the latch was set by a trigger and has been cleared by a read that found
\* the pin low 1000 ms after it
C30_Witness ==
  /\ env = EnvExit
  /\ rfPc = "card"
  /\ ~exitSensorTriggered /\ ~exitPin /\ ~lastExitSensorState
  /\ Sub32(now, lastExitTriggerTime) = 2 * Units(EXIT_DEBOUNCE_MS)
  /\ Len(logQueue) = 1 /\ logQueue[1].type = "exit"

(***************************************************************************)
(* Labels.  The remote side sends Add, Move and Rename commands for one    *)
(* card with names of every shape: padded, empty, blank, longer than       *)
(* MAX_NAME_LENGTH, and with a space at the place where the cut falls.     *)
(* The registry starts empty, so every label in it was stored by one of    *)
(* these commands.                                                         *)
(***************************************************************************)
Blank == <<" ", "\t">>

\* 46 characters, the 45th a space
LongName == Rep(MAX_NAME_LENGTH - 1) \o <<" ", "B">>

NameFamily == {RawAlice, <<>>, Blank, Rep(MAX_NAME_LENGTH + 2), LongName}

EnvLabel ==
  Environment({},
              {Add("whitelist", UID_a, n) : n \in NameFamily}
                \cup {MoveNamed("whitelist", "blacklist", UID_a, n) :
                        n \in NameFamily}
                \cup {Rename("whitelist", UID_a, n) : n \in NameFamily}
                \cup {AddNoName("whitelist", UID_a),
                      Move("whitelist", "blacklist", UID_a)},
              {FALSE}, {UNLOCK_COOLDOWN_MS}, Reliable, Reliable, {TRUE},
              FALSE, FALSE, Empty3)

InitLabel == Boot(EnvLabel)

NextLabel ==
  \/ RfidExit
  \/ RfidCycleEnd
  \/ FbLoop
  \/ \E g, e, d \in Transport : handleAddCommand(g, e, d)
  \/ \E ok \in Storage, e \in Transport : addApply(ok, e)
  \/ \E t \in Transport : addMirror(t)
  \/ \E g, e, d \in Transport, ok \in Storage :
       handleMoveCommand(g, ok, e, d)
  \/ \E ok \in Storage : moveRemove(ok)
  \/ \E ok \in Storage : moveAdd(ok)
  \/ \E t1, t2 \in Transport : moveMirror(t1, t2)
  \/ \E g, e, d \in Transport : handleRenameCommand(g, e, d)
  \/ \E ok \in Storage : renameApply(ok)
  \/ \E t \in Transport : renameMirror(t)
  \/ Submit

SpecLabel == InitLabel /\ [][NextLabel]_vars

\* the labels the registry holds
StoredLabels == UNION {{nvs[l][u] : u \in DOMAIN nvs[l]} : l \in Lists}

\* a label within the length limit and not empty
LabelSized(n) == Len(n) > 0 /\ Len(n) <= MAX_NAME_LENGTH

\* a label without white space at either end
LabelTrimmed(n) == Len(n) > 0 => ~isspace(n[1]) /\ ~isspace(n[Len(n)])

(***************************************************************************)
(* C31: every label an Add, Move or Rename command stores in the registry  *)
(* has no leading or trailing white space, is at most 45 characters long   *)
(* and is never empty.                                                     *)
(***************************************************************************)
C31_LabelsSanitized ==
  \A n \in StoredLabels : LabelSized(n) /\ LabelTrimmed(n)

\* the part of C31 that holds: length and non-emptiness, no leading space
T31_LabelsSizedLeft ==
  \A n \in StoredLabels : LabelSized(n) /\ ~isspace(n[1])

\* a canonical identifier: upper-case hex digits only, of even length, 8 to
\* 20 characters
Canonical(uid) ==
  /\ Len(uid) \in 8..20
  /\ Len(uid) % 2 = 0
  /\ \A i \in 1..Len(uid) : uid[i] \in UpperHex

(***************************************************************************)
(* C32: every identifier that is a key of one of the three sets of the     *)
(* registry is canonical, whatever cards are presented and whatever        *)
(* commands arrive.                                                        *)
(***************************************************************************)
C32_KeysCanonical ==
  \A l \in Lists : \A uid \in DOMAIN nvs[l] : Canonical(uid)

\* an identifier that arrived in lower case, in a command and on a card, is
\* a key of the registry
C32_Witness ==
  /\ env = EnvRegistry
  /\ inputs > 0 /\ submitted > 0
  /\ \E l \in Lists : toUpperCase(UID_a) \in DOMAIN nvs[l]

\* the running scan inserts its identifier into Pending
PendingInsert ==
  /\ rfPc = "addPending" /\ rfPc' = "update"
  /\ scanUid \notin DOMAIN nvs["pending"]
  /\ scanUid \in DOMAIN nvs'["pending"]

(***************************************************************************)
(* C33: a scan inserts an identifier into Pending only if, at the moment   *)
(* of the insertion, the identifier is in neither Allow nor Deny, whatever *)
(* the network task does between the scan's reads and whatever reads time  *)
(* out on the registry mutex.                                              *)
(***************************************************************************)
C33_PendingInsertOnlyUnlisted ==
  [][PendingInsert
       => /\ scanUid \notin DOMAIN nvs["whitelist"]
          /\ scanUid \notin DOMAIN nvs["blacklist"]]_vars

\* C33 where nothing fails: only the interleaving with a command is left
T33_Interleaving ==
  [][(PendingInsert /\ env = EnvRegistry)
       => /\ scanUid \notin DOMAIN nvs["whitelist"]
          /\ scanUid \notin DOMAIN nvs["blacklist"]]_vars

\* C33 where no command arrives: only the failing reads are left
T33_Timeouts ==
  [][(PendingInsert /\ env = EnvStorage)
       => /\ scanUid \notin DOMAIN nvs["whitelist"]
          /\ scanUid \notin DOMAIN nvs["blacklist"]]_vars

(***************************************************************************)
(* The lock on line.  The door boots with the network there, so the tasks  *)
(* start 1600 ms after power-up; an allowed card, the exit button and      *)
(* remote unlocks of 1 s and of 300 s all ask for the lock.                *)
(***************************************************************************)
EnvLock ==
  Environment({UID_a}, {Unlock(1), Unlock(300)}, BOOLEAN,
              {1000, UNLOCK_COOLDOWN_MS}, Reliable, Reliable, {TRUE}, FALSE,
              FALSE, Door0)

InitLock == Boot(EnvLock)

NextLock ==
  \/ RfidCommand
  \/ RfidExit
  \/ RfidCardRead
  \/ \E ok \in Storage : scanBegin(ok)
  \/ \E ok \in Storage : scanGranted(ok)
  \/ RfidCycleEnd
  \/ FbLoop
  \/ \E g, e, d \in Transport : handleUnlockCommand(g, e, d)
  \/ unlockExec
  \/ Submit

SpecLock == InitLock /\ [][NextLock]_vars

\* the step hands a granted audit record to the log queue: a scan of an
\* allowed card ends, or the exit button triggers
GrantedRecord == GrantedStep \/ AcceptedExit

(***************************************************************************)
(* C34: whenever an audit record with outcome granted is emitted, for an   *)
(* allowed scan or an exit request, the lock relay is engaged at that      *)
(* moment.                                                                 *)
(***************************************************************************)
C34_GrantedMeansEngaged ==
  [][GrantedRecord => relayActive']_vars

\* C34 outside the first 3000 ms after boot
T34_AfterBootWindow ==
  [][(GrantedRecord /\ now >= Units(UNLOCK_COOLDOWN_MS)) => relayActive']_vars

\* the step accepts a lock activation
ActivationAccepted == unlockCount' = unlockCount + 1

\* the engaged time the last accepted activation still has to run
RelayRemaining == relayDuration - Sub32(now, relayStartTime)

(***************************************************************************)
(* C35: once a lock activation of duration d is accepted at time t, the    *)
(* lock stays engaged until at least t + d.  The running program releases  *)
(* the relay only when the engaged time it keeps has run out, and an       *)
(* activation accepted while the relay is engaged does not leave less      *)
(* engaged time than there was.                                            *)
(***************************************************************************)
C35_ActivationNotShortened ==
  [][/\ (relayActive /\ ~relayActive' /\ reboots' = reboots)
          => RelayRemaining <= 0
     /\ (relayActive /\ ActivationAccepted)
          => relayActive' /\ relayDuration' >= RelayRemaining]_vars

\* the first half of C35 alone: a release only when the time kept is over
T35_ReleaseWhenDue ==
  [][(relayActive /\ ~relayActive' /\ reboots' = reboots)
       => RelayRemaining <= 0]_vars

(***************************************************************************)
(* Remote unlocks over time.  Both tasks keep running; the remote side     *)
(* sends unlocks of 4 s and the exit button is used as well; a cycle of    *)
(* rfidTask takes half the cooldown.                                       *)
(***************************************************************************)
EnvRemote ==
  Environment({}, {Unlock(4)}, BOOLEAN, {UNLOCK_COOLDOWN_MS \div 2}, Reliable,
              Reliable, {TRUE}, FALSE, FALSE, Empty3)

InitRemote == Boot(EnvRemote)

\* rfidTask, end of a cycle after the clock has reached the end of the
\* observed time: the loop goes on for as long as a command is queued
RfidTickQueued ==
  /\ rfPc \in {"card", "update"}
  /\ Len(commandQueue) > 0
  /\ ~(relayActive \/ buzzerActive)
  /\ update
  /\ \E d \in env.steps :
       /\ Sub32(now, bootAt) + Units(d)
            > MaxHalfSeconds * Units(EXIT_DEBOUNCE_MS)
       /\ now' = (now + Units(d)) % WrapUnits
       /\ wallMs' = wallMs + Units(d)
  /\ rfPc' = "cmd"
  /\ UNCHANGED <<nvs, exitVars, logVars, pendVars, cmdQVars, scanUid, netVars,
                 remoteVars, histVars>>

\* the steps of rfidTask in this environment
RfidRemote ==
  RfidCommand \/ RfidExit \/ RfidCycleEnd \/ RfidTickOn \/ RfidTickQueued

\* the steps of firebaseTask in this environment
FbRemote ==
  \/ FbLoop
  \/ \E g, e, d \in Transport : handleUnlockCommand(g, e, d)
  \/ unlockExec

NextRemote == RfidRemote \/ FbRemote \/ Submit

SpecRemote ==
  InitRemote /\ [][NextRemote]_vars /\ WF_vars(RfidRemote) /\ WF_vars(FbRemote)

\* a valid Unlock command has been removed from the inbox and is about to be
\* handed to rfidTask
UnlockRemoved == fbPc = "unlockExec"

\* the lock is engaged for the time a remote unlock asks for
EngagedByUnlock ==
  /\ relayActive
  /\ \E c \in env.cmds : relayDuration = Units(Mul1000(c[2].duration))

(***************************************************************************)
(* C36: a valid remote Unlock command that has been removed from the inbox *)
(* eventually engages the lock for its duration, provided both tasks keep  *)
(* running.                                                                *)
(***************************************************************************)
C36_UnlockEventuallyEngages ==
  UnlockRemoved ~> EngagedByUnlock

\* C36 for commands that find room in the command queue and are removed from
\* the inbox more than 3000 ms after boot
T36_RoomAndLate ==
  (UnlockRemoved /\ Len(commandQueue) < CommandQueueCap
     /\ now >= Units(UNLOCK_COOLDOWN_MS))
    ~> EngagedByUnlock

\* a step of the running program takes a record off the audit queue
LogDequeued == Len(logQueue') < Len(logQueue) /\ reboots' = reboots

\* the key processLogQueue writes the record it has just received under
LogKey == <<getEpochTime, processed>>

\* audit records accounted for on the device: queued or counted as dropped
LogHeld == Len(logQueue) + logQueueDrops

(***************************************************************************)
(* C37: no audit record is lost other than by a counted queue drop.  The   *)
(* records produced equal those written to the remote logs plus those in   *)
(* the audit queue plus the drop counter in every state exactly when every *)
(* step of the running program keeps that balance: a step that takes a     *)
(* record off the queue takes the oldest one and leaves it written in the  *)
(* remote logs, and any other step leaves the sum of queue length and drop *)
(* counter as it was or adds the one record it produces.                   *)
(***************************************************************************)
C37_NoRecordLost ==
  [][/\ LogDequeued
          => /\ logQueue' = Tail(logQueue)
             /\ logQueueDrops' = logQueueDrops
             /\ LogKey \in DOMAIN fbLogs'
             /\ fbLogs'[LogKey] = Head(logQueue)
     /\ (~LogDequeued /\ reboots' = reboots)
          => LogHeld' \in {LogHeld, LogHeld + 1}]_vars

\* C37 without the requirement that the record taken is written
T37_QueueAccounting ==
  [][/\ LogDequeued
          => logQueue' = Tail(logQueue) /\ logQueueDrops' = logQueueDrops
     /\ (~LogDequeued /\ reboots' = reboots)
          => LogHeld' \in {LogHeld, LogHeld + 1}]_vars

\* every record of the tree is still there, under its key and unchanged
Kept(tree, tree2) ==
  \A k \in DOMAIN tree : k \in DOMAIN tree2 /\ tree2[k] = tree[k]

(***************************************************************************)
(* C38: distinct records written under /logs and under /commandErrors      *)
(* never share a key: no step replaces a record that was written there by  *)
(* another one.                                                            *)
(***************************************************************************)
C38_KeysNeverShared ==
  [][Kept(fbLogs, fbLogs') /\ Kept(commandErrors, commandErrors')]_vars

\* the half of C38 about /logs
T38_LogsKept == [][Kept(fbLogs, fbLogs')]_vars

\* the half of C38 about /commandErrors
T38_ErrorsKept == [][Kept(commandErrors, commandErrors')]_vars

(***************************************************************************)
(* Registry and mirror.  The door is on line and nothing fails: one        *)
(* unknown card is presented, before and after the remote side edits its   *)
(* entry with Add, Delete, Move and Rename commands.                       *)
(***************************************************************************)
EnvMirror ==
  Environment({UID_c},
              {Add("blacklist", UID_c, Alice), Delete("blacklist", UID_c),
               Move("pending", "whitelist", UID_c),
               Rename("pending", UID_c, RawAlice)},
              {FALSE}, {UNLOCK_COOLDOWN_MS}, Reliable, Reliable, {TRUE},
              FALSE, FALSE, Empty3)

InitMirror == Boot(EnvMirror)

NextMirror ==
  \/ RfidExit
  \/ RfidCardRead
  \/ RfidScan
  \/ RfidCycleEnd
  \/ FbLoop
  \/ \E g, e, d \in Transport : handleAddCommand(g, e, d)
  \/ \E ok \in Storage, e \in Transport : addApply(ok, e)
  \/ \E t \in Transport : addMirror(t)
  \/ \E g, e, d \in Transport : handleDeleteCommand(g, e, d)
  \/ \E ok \in Storage : deleteApply(ok)
  \/ \E t \in Transport : deleteMirror(t)
  \/ \E g, e, d \in Transport, ok \in Storage :
       handleMoveCommand(g, ok, e, d)
  \/ \E ok \in Storage : moveRemove(ok)
  \/ \E ok \in Storage : moveAdd(ok)
  \/ \E t1, t2 \in Transport : moveMirror(t1, t2)
  \/ \E g, e, d \in Transport : handleRenameCommand(g, e, d)
  \/ \E ok \in Storage : renameApply(ok)
  \/ \E t \in Transport : renameMirror(t)
  \/ FbQueues
  \/ Submit

SpecMirror == InitMirror /\ [][NextMirror]_vars

\* nothing is under way: the inbox is empty, the outbound queues are drained
\* and have lost nothing, no scan and no command handler is running
Quiescent ==
  /\ \A k \in Kinds : inbox[k] = <<>>
  /\ logQueue = <<>> /\ pendingQueue = <<>>
  /\ pendingQueueDrops = 0
  /\ fbPc = "loop" /\ cur = NoCur
  /\ rfPc \in {"cmd", "exit", "card"}

(***************************************************************************)
(* C39: in a quiescent state reached without transport or storage          *)
(* failures the remote mirror agrees with the registry: the same           *)
(* identifiers under each set, with the same labels.                       *)
(***************************************************************************)
C39_MirrorAgrees == Quiescent => fb = nvs

\* C39 for membership alone, labels left aside
T39_SameMembers ==
  Quiescent => \A l \in Lists : DOMAIN fb[l] = DOMAIN nvs[l]

(***************************************************************************)
(* Across the wraparound of millis().  The door has been up and untouched  *)
(* for 2^32 ms less 1500 ms, off line; then an allowed card and the exit   *)
(* button are used, in cycles of 400 ms and 1000 ms, while the counter     *)
(* wraps.  No cycle reads the counter at 0.                                *)
(***************************************************************************)
EnvWrap ==
  Environment({UID_a}, {}, BOOLEAN, {EXIT_DEBOUNCE_MS - 100, 1000}, Reliable,
              Reliable, {FALSE}, FALSE, FALSE, Door0)

InitWrap ==
  BootAt(EnvWrap, WrapUnits - Units(RELAY_DEFAULT_DURATION \div 2))

NextWrap ==
  \/ RfidExit
  \/ RfidCardRead
  \/ \E ok \in Storage : scanBegin(ok)
  \/ \E ok \in Storage : scanGranted(ok)
  \/ RfidCycleEnd
  \/ RfidTickOn

SpecWrap == InitWrap /\ [][NextWrap]_vars

\* the time a counter without wraparound would show for the reading x of
\* millis(): a start time of 0 was never set and is the boot, any other
\* reading was taken since the run began at bootAt
Unwrapped(x) == IF x = 0 THEN 0 ELSE bootAt + Sub32(x, bootAt)

\* the time from start to now on a counter without wraparound
Elapsed(start) == Unwrapped(now) - Unwrapped(start)

\* a read of the exit pin that finds the level changed
ExitChange == ExitRead /\ exitPin' # lastExitSensorState

\* the decisions of a step are those a counter without wraparound gives: a
\* request for the lock is accepted unless the cooldown runs, update()
\* releases relay and buzzer when their time is over, a change of the exit
\* pin is ignored inside the debounce interval, and the latch is cleared by
\* a low level after it
SameDecisions ==
  /\ GrantedRecord
       => (ActivationAccepted
             <=> Elapsed(lastUnlock) >= Units(UNLOCK_COOLDOWN_MS))
  /\ (Tick /\ relayActive)
       => (~relayActive' <=> Elapsed(relayStartTime) >= relayDuration)
  /\ (Tick /\ buzzerActive)
       => (~buzzerActive' <=> Elapsed(buzzerStartTime) >= buzzerDuration)
  /\ ExitChange
       => (lastExitSensorState' # exitPin'
             <=> Elapsed(lastExitTriggerTime) < Units(EXIT_DEBOUNCE_MS))
  /\ (ExitRead /\ exitSensorTriggered /\ ~exitPin'
        /\ lastExitSensorState' = exitPin')
       => (~exitSensorTriggered'
             <=> Elapsed(lastExitTriggerTime) > Units(EXIT_DEBOUNCE_MS))

(***************************************************************************)
(* C40: the cooldown test, the relay and buzzer release tests and the exit *)
(* debounce test give the same decisions when millis() wraps around        *)
(* between the start time and now as they would without wraparound.        *)
(***************************************************************************)
C40_WrapSameDecisions == [][SameDecisions]_vars

\* C40 for start times that lie less than 2^32 ms back: the lock has been
\* engaged and the exit button has triggered since the run began
T40_RecentStarts ==
  [][(unlockCount > 0 /\ lastExitTriggerTime # 0) => SameDecisions]_vars

\* the counter has wrapped since the lock was engaged and since the exit
\* button triggered
T40_Wrapped ==
  /\ unlockCount > 0 /\ lastExitTriggerTime # 0
  /\ now < lastUnlock /\ now < lastExitTriggerTime

====
